---- MODULE Spec2Model ----
(***************************************************************************)
(* Model of the Pure Data IR pipeline of pdpy_lib/ir: the node id          *)
(* generator (ids.py), the symbol extractor (symbols.py), the object       *)
(* registry (registry.py), the IR builder (build.py), the canonical graph  *)
(* hash (core.py) and the graph analyzer (analysis.py).                    *)
(*                                                                         *)
(* A Python str is a sequence of one-character strings, so that split,     *)
(* replace, endswith, truncation and comparison are computed on the text.  *)
(* SHA-256 is taken as collision-free: a digest is the bracketed text it   *)
(* was computed from.                                                      *)
(***************************************************************************)
EXTENDS Integers, Sequences, FiniteSets, TLC

VARIABLES
    idgen,      \* NodeIDGenerator: [counter, node_map, id_set]
    idsIn,      \* the canvas handed to generate_ids: [nodes, edges, path]
    idsLast,    \* the arguments of the latest generate_ids call
    idsOut,     \* the mapping returned by the latest generate_ids call
    idsCalls,   \* the number of generate_ids calls made on the instance
    extractor,  \* SymbolExtractor: [symbols, symbol_counter]
    symLog,     \* the extract_from_node calls since the last reset
    symEdges,   \* the result of generate_symbol_edges: [generated, edges]
    sccIn,      \* the edges and the iteration order find_sccs ran on
    sccOut,     \* the result of find_sccs: [ran, sccs]
    hashIn,     \* the two IRPatches compute_graph_hash ran on
    hashOut,    \* the results of compute_graph_hash: [ran, first, second]
    builder,    \* IRBuilder: the record of its fields
    buildIn,    \* the root canvas handed to the latest build
    buildOut,   \* the result of the latest build: [built, ir]
    ifaceIn,    \* the two node lists find_interface_ports ran on
    ifaceOut,   \* the results of find_interface_ports: [ran, first, second]
    ioIn,       \* the arguments of the get_io_count call
    ioOut,      \* its result
    enrPatch,   \* the IRPatch handed to the enrichment layer
    enrFiles,   \* the enrichment files on disk, by path
    enrLast,    \* the last enrichment operation and what it applied
    reuseBuilder,\* an IRBuilder used for build after build
    reuseCalls, \* the patches built on it so far
    reuseOut,   \* the IRPatch its last build returned
    concProcs,  \* the two builds: position, input, builder and locals of each
    concRegistries,\* the ObjectRegistry instances made so far
    concGlobal, \* the module's _registry: an index into concRegistries, 0 for None
    concSched,  \* who ran last and how often the turn changed
    loadRegistry,\* the ObjectRegistry that load_json is called on
    loadCall,   \* the file loaded, the registry before the call and whether the call raised
    chainIn,    \* the chain patch handed to build
    chainOut,   \* the IRPatch built of it, with its analysis
    walkIn,     \* the wire graph and the query put to its GraphAnalyzer
    walkOut,    \* what the query returned
    gstTable,   \* a GlobalSymbolTable
    gstCalls,   \* the add_patch_symbols calls made on it
    idxDb,      \* IRIndex: the SQLite database behind the connection
    idxCalls,   \* the index_patch and remove_patch calls made so far
    cacheDir,   \* EnrichmentCache.cache_dir
    cacheFiles, \* the enrichment files on disk: path -> text
    cacheCalls, \* the save and invalidate calls made so far
    cacheGot    \* the latest get: its path and what it returned

idsVars == <<idgen, idsIn, idsLast, idsOut, idsCalls>>
symVars == <<extractor, symLog, symEdges>>
sccVars == <<sccIn, sccOut>>
hashVars == <<hashIn, hashOut>>
buildVars == <<builder, buildIn, buildOut>>
ifaceVars == <<ifaceIn, ifaceOut>>
ioVars == <<ioIn, ioOut>>
enrichVars == <<enrPatch, enrFiles, enrLast>>
reuseVars == <<reuseBuilder, reuseCalls, reuseOut>>
concVars == <<concProcs, concRegistries, concGlobal, concSched>>
loadVars == <<loadRegistry, loadCall>>
chainVars == <<chainIn, chainOut>>
walkVars == <<walkIn, walkOut>>
gstVars == <<gstTable, gstCalls>>
idxVars == <<idxDb, idxCalls>>
cacheVars == <<cacheDir, cacheFiles, cacheCalls, cacheGot>>
vars == <<idsVars, symVars, sccVars, hashVars, buildVars, ifaceVars, ioVars, enrichVars, reuseVars, concVars, loadVars, chainVars, walkVars, gstVars, idxVars, cacheVars>>

\* What the actions of one part leave alone: the variables of the other parts.
notIds == <<symVars, sccVars, hashVars, buildVars, ifaceVars, ioVars, enrichVars, reuseVars, concVars, loadVars, chainVars, walkVars, gstVars, idxVars, cacheVars>>
notSym == <<idsVars, sccVars, hashVars, buildVars, ifaceVars, ioVars, enrichVars, reuseVars, concVars, loadVars, chainVars, walkVars, gstVars, idxVars, cacheVars>>
notScc == <<idsVars, symVars, hashVars, buildVars, ifaceVars, ioVars, enrichVars, reuseVars, concVars, loadVars, chainVars, walkVars, gstVars, idxVars, cacheVars>>
notHash == <<idsVars, symVars, sccVars, buildVars, ifaceVars, ioVars, enrichVars, reuseVars, concVars, loadVars, chainVars, walkVars, gstVars, idxVars, cacheVars>>
notBuild == <<idsVars, symVars, sccVars, hashVars, ifaceVars, ioVars, enrichVars, reuseVars, concVars, loadVars, chainVars, walkVars, gstVars, idxVars, cacheVars>>
notIface == <<idsVars, symVars, sccVars, hashVars, buildVars, ioVars, enrichVars, reuseVars, concVars, loadVars, chainVars, walkVars, gstVars, idxVars, cacheVars>>
notIo == <<idsVars, symVars, sccVars, hashVars, buildVars, ifaceVars, enrichVars, reuseVars, concVars, loadVars, chainVars, walkVars, gstVars, idxVars, cacheVars>>
notEnrich == <<idsVars, symVars, sccVars, hashVars, buildVars, ifaceVars, ioVars, reuseVars, concVars, loadVars, chainVars, walkVars, gstVars, idxVars, cacheVars>>
notReuse == <<idsVars, symVars, sccVars, hashVars, buildVars, ifaceVars, ioVars, enrichVars, concVars, loadVars, chainVars, walkVars, gstVars, idxVars, cacheVars>>
notConc == <<idsVars, symVars, sccVars, hashVars, buildVars, ifaceVars, ioVars, enrichVars, reuseVars, loadVars, chainVars, walkVars, gstVars, idxVars, cacheVars>>
notLoad == <<idsVars, symVars, sccVars, hashVars, buildVars, ifaceVars, ioVars, enrichVars, reuseVars, concVars, chainVars, walkVars, gstVars, idxVars, cacheVars>>
notChain == <<idsVars, symVars, sccVars, hashVars, buildVars, ifaceVars, ioVars, enrichVars, reuseVars, concVars, loadVars, walkVars, gstVars, idxVars, cacheVars>>
notWalk == <<idsVars, symVars, sccVars, hashVars, buildVars, ifaceVars, ioVars, enrichVars, reuseVars, concVars, loadVars, chainVars, gstVars, idxVars, cacheVars>>
notGst == <<idsVars, symVars, sccVars, hashVars, buildVars, ifaceVars, ioVars, enrichVars, reuseVars, concVars, loadVars, chainVars, walkVars, idxVars, cacheVars>>
notIdx == <<idsVars, symVars, sccVars, hashVars, buildVars, ifaceVars, ioVars, enrichVars, reuseVars, concVars, loadVars, chainVars, walkVars, gstVars, cacheVars>>
notCache == <<idsVars, symVars, sccVars, hashVars, buildVars, ifaceVars, ioVars, enrichVars, reuseVars, concVars, loadVars, chainVars, walkVars, gstVars, idxVars>>

(***************************************************************************)
(* Bounds of the model.                                                    *)
(***************************************************************************)
MaxNodes == 3
MaxEdges == 2
MaxCalls == 2
MaxExtract == 5
MaxGraphNodes == 3
MaxWires == 3
MaxHashEdges == 2
MaxObjs == 2
MaxBuildEdges == 2

(***************************************************************************)
(* Text.                                                                   *)
(***************************************************************************)
\* The characters the model uses, in code point order.
Alphabet ==
    <<"\t", " ", "#", "$", "*", "+", ",", "-", "/",
      "0", "1", "2", "3", "4", "5", "6", "7", "8", "9",
      ":", "[", "\\", "]", "_",
      "a", "b", "c", "d", "e", "f", "g", "h", "i", "j", "k", "l", "m",
      "n", "o", "p", "q", "r", "s", "t", "u", "v", "w", "x", "y", "z",
      "|", "~">>

Ord(c) == CHOOSE i \in 1..Len(Alphabet) : Alphabet[i] = c

\* str < str of Python: lexicographic by code point.
RECURSIVE StrLess(_, _)
StrLess(a, b) ==
    IF b = <<>> THEN FALSE
    ELSE IF a = <<>> THEN TRUE
    ELSE IF Head(a) = Head(b) THEN StrLess(Tail(a), Tail(b))
    ELSE Ord(Head(a)) < Ord(Head(b))

Digits == <<"0", "1", "2", "3", "4", "5", "6", "7", "8", "9">>

\* str(n) for a natural number n.
RECURSIVE NumStr(_)
NumStr(n) ==
    IF n < 10 THEN <<Digits[n + 1]>>
    ELSE NumStr(n \div 10) \o <<Digits[(n % 10) + 1]>>

\* sep.join(parts)
RECURSIVE Join(_, _)
Join(sep, parts) ==
    IF parts = <<>> THEN <<>>
    ELSE IF Len(parts) = 1 THEN parts[1]
    ELSE parts[1] \o sep \o Join(sep, Tail(parts))

\* s.split(c)[-1]: the text after the last occurrence of c.
RECURSIVE SplitLast(_, _)
SplitLast(s, c) ==
    IF \E i \in 1..Len(s) : s[i] = c
    THEN SplitLast(Tail(s), c)
    ELSE s

\* s.replace(c, d)
Replace(s, c, d) == [i \in 1..Len(s) |-> IF s[i] = c THEN d ELSE s[i]]

EndsWith(s, c) == s /= <<>> /\ s[Len(s)] = c

Contains(s, c) == \E i \in 1..Len(s) : s[i] = c

\* hashlib.sha256(content).hexdigest()[:8], taken as collision-free.
Sha8(content) == <<"[">> \o content \o <<"]">>

\* sorted(list of str)
RECURSIVE InsertStr(_, _)
InsertStr(x, sorted) ==
    IF sorted = <<>> THEN <<x>>
    ELSE IF StrLess(x, Head(sorted)) THEN <<x>> \o sorted
    ELSE <<Head(sorted)>> \o InsertStr(x, Tail(sorted))

RECURSIVE SortedStrs(_)
SortedStrs(xs) ==
    IF xs = <<>> THEN <<>>
    ELSE InsertStr(xs[Len(xs)], SortedStrs(SubSeq(xs, 1, Len(xs) - 1)))

\* d[k] = v on a dict d
DictPut(d, k, v) == [x \in DOMAIN d \cup {k} |-> IF x = k THEN v ELSE d[x]]

EmptyDict == [x \in {} |-> 0]

(***************************************************************************)
(* ids.py: NodeIDGenerator.                                                *)
(***************************************************************************)
SYMBOL_ANCHORS ==
    {<<"s">>,
     <<"s", "e", "n", "d">>,
     <<"r">>,
     <<"r", "e", "c", "e", "i", "v", "e">>,
     <<"s", "~">>,
     <<"s", "e", "n", "d", "~">>,
     <<"r", "~">>,
     <<"r", "e", "c", "e", "i", "v", "e", "~">>,
     <<"t", "h", "r", "o", "w", "~">>,
     <<"c", "a", "t", "c", "h", "~">>,
     <<"v", "a", "l", "u", "e">>,
     <<"v">>,
     <<"t", "a", "b", "l", "e">>,
     <<"a", "r", "r", "a", "y">>,
     <<"s", "o", "u", "n", "d", "f", "i", "l", "e", "r">>,
     <<"t", "e", "x", "t">>,
     <<"d", "e", "l", "w", "r", "i", "t", "e", "~">>,
     <<"d", "e", "l", "r", "e", "a", "d", "~">>,
     <<"d", "e", "l", "r", "e", "a", "d", "4", "~">>,
     <<"t", "a", "b", "r", "e", "a", "d", "~">>,
     <<"t", "a", "b", "r", "e", "a", "d", "4", "~">>,
     <<"t", "a", "b", "o", "s", "c", "4", "~">>,
     <<"t", "a", "b", "w", "r", "i", "t", "e", "~">>,
     <<"t", "a", "b", "r", "e", "a", "d">>,
     <<"t", "a", "b", "w", "r", "i", "t", "e">>,
     <<"t", "a", "b", "r", "e", "a", "d", "4">>}

INTERFACE_OBJECTS ==
    {<<"i", "n", "l", "e", "t">>,
     <<"i", "n", "l", "e", "t", "~">>,
     <<"o", "u", "t", "l", "e", "t">>,
     <<"o", "u", "t", "l", "e", "t", "~">>}

D_control == <<"c", "o", "n", "t", "r", "o", "l">>
D_signal == <<"s", "i", "g", "n", "a", "l">>
D_unknown == <<"u", "n", "k", "n", "o", "w", "n">>
K_object == <<"o", "b", "j", "e", "c", "t">>
K_message == <<"m", "e", "s", "s", "a", "g", "e">>

\* None, where the code returns Optional[str].
NoId == <<>>

\* NodeIDGenerator.__init__
NewGenerator == [counter |-> EmptyDict, node_map |-> EmptyDict, id_set |-> {}]

\* The while loop of _make_unique: the first k, counting up, with base_id#k free.
RECURSIVE FirstFreeSuffix(_, _, _)
FirstFreeSuffix(id_set, base_id, k) ==
    IF (base_id \o <<"#">> \o NumStr(k)) \in id_set
    THEN FirstFreeSuffix(id_set, base_id, k + 1)
    ELSE k

\* make_unique without the suffix loop: the base id is handed out even
\* when it is taken.
make_unique_keeps_base(g, base_id) ==
    [id |-> base_id, g |-> [g EXCEPT !.id_set = @ \cup {base_id}]]

\* NodeIDGenerator._make_unique on generator g: [id, g]
make_unique(g, base_id) ==
    IF base_id \notin g.id_set
    THEN [id |-> base_id, g |-> [g EXCEPT !.id_set = @ \cup {base_id}]]
    ELSE LET k == FirstFreeSuffix(g.id_set, base_id, 1)
             unique_id == base_id \o <<"#">> \o NumStr(k)
         IN [id |-> unique_id, g |-> [g EXCEPT !.id_set = @ \cup {unique_id}]]

MaxSymbolLen == 32

\* NodeIDGenerator._sanitize_symbol
sanitize_symbol(symbol) ==
    LET sanitized == Replace(Replace(Replace(Replace(symbol,
                         "/", "_"), "\\", "_"), " ", "_"), "\t", "_")
    IN IF Len(sanitized) > MaxSymbolLen
       THEN SubSeq(sanitized, 1, MaxSymbolLen)
       ELSE sanitized

\* NodeIDGenerator._get_tier1_id: [id, g], id = NoId for None
get_tier1_id(g, canvas_path, obj_type, args, domain) ==
    LET base_type == SplitLast(obj_type, "/")
    IN IF base_type \notin SYMBOL_ANCHORS \/ args = <<>>
       THEN [id |-> NoId, g |-> g]
       ELSE LET sanitized == sanitize_symbol(args[1])
                base0 == canvas_path \o <<":", ":">> \o base_type
                             \o <<":">> \o sanitized
                base_id == IF domain /= <<>> /\ domain /= D_unknown
                           THEN base0 \o <<":">> \o domain
                           ELSE base0
            IN make_unique(g, base_id)

\* A tier 2 that gives no id.
get_no_tier2_id(g, canvas_path, obj_type, interface_index) ==
    [id |-> NoId, g |-> g]

\* NodeIDGenerator._get_tier2_id
get_tier2_id(g, canvas_path, obj_type, interface_index) ==
    IF obj_type \notin INTERFACE_OBJECTS
    THEN [id |-> NoId, g |-> g]
    ELSE make_unique(g, canvas_path \o <<":", ":">> \o obj_type
                            \o <<"#">> \o NumStr(interface_index))

\* NodeIDGenerator._compute_node_signature
compute_node_signature(obj_type, args) ==
    Sha8(obj_type \o <<"|">> \o Join(<<",">>, args))

\* NodeIDGenerator._get_tier3_id
get_tier3_id(g, canvas_path, obj_type, args, predecessors, successors) ==
    LET self_sig == compute_node_signature(obj_type, args)
        pred_sigs == SortedStrs(predecessors)
        succ_sigs == SortedStrs(successors)
        combined == self_sig \o <<"|">> \o Join(<<",">>, pred_sigs)
                        \o <<"|">> \o Join(<<",">>, succ_sigs)
        fp == Sha8(combined)
    IN make_unique(g, canvas_path \o <<":", ":", "h">> \o fp)

\* NodeIDGenerator._get_tier4_id
get_tier4_id(g, canvas_path, obj_type, kind, original_order) ==
    LET key == canvas_path \o <<":">> \o kind
        n == (IF key \in DOMAIN g.counter THEN g.counter[key] ELSE 0) + 1
        g1 == [g EXCEPT !.counter = DictPut(@, key, n)]
    IN make_unique(g1, canvas_path \o <<":", ":", "n">> \o NumStr(n))

\* A reset that forgets to clear the set of ids in use.
reset_keeps_id_set(g) == [g EXCEPT !.counter = EmptyDict, !.node_map = EmptyDict]

\* NodeIDGenerator.reset
reset(g) == [counter |-> EmptyDict, node_map |-> EmptyDict, id_set |-> {}]

\* The interface_indices dict of generate_ids: original_id -> index among the
\* nodes of the same interface type, in list order (a later node with the same
\* original_id overwrites an earlier one).
interface_indices(nodes) ==
    LET pos == {i \in 1..Len(nodes) : nodes[i].type \in INTERFACE_OBJECTS}
        last(id) == CHOOSE i \in pos :
                        /\ nodes[i].original_id = id
                        /\ \A j \in pos : nodes[j].original_id = id => j <= i
    IN [id \in {nodes[i].original_id : i \in pos} |->
           Cardinality({j \in 1..(last(id) - 1) :
                            nodes[j].type = nodes[last(id)].type})]

\* The signatures of the nodes named by ids (the first node of the list with
\* that original_id; an id that names no node is skipped).
RECURSIVE neighbor_sigs(_, _)
neighbor_sigs(nodes, ids) ==
    IF ids = <<>> THEN <<>>
    ELSE LET found == {i \in 1..Len(nodes) : nodes[i].original_id = Head(ids)}
             rest == neighbor_sigs(nodes, Tail(ids))
         IN IF found = {} THEN rest
            ELSE LET n == nodes[CHOOSE i \in found : \A j \in found : i <= j]
                 IN <<compute_node_signature(n.type, n.args)>> \o rest

\* predecessors[original_id] and successors[original_id], in edge order
predecessors_of(edges, id) ==
    LET es == SelectSeq(edges, LAMBDA e : e[3] = id)
    IN [i \in 1..Len(es) |-> es[i][1]]

successors_of(edges, id) ==
    LET es == SelectSeq(edges, LAMBDA e : e[1] = id)
    IN [i \in 1..Len(es) |-> es[i][3]]

\* The body of the main loop of generate_ids for nodes[i]: [id, g]
generate_one(g, nodes, edges, canvas_path, i) ==
    LET node == nodes[i]
        indices == interface_indices(nodes)
        t1 == get_tier1_id(g, canvas_path, node.type, node.args, node.domain)
        t2 == IF t1.id = NoId /\ node.original_id \in DOMAIN indices
              THEN get_tier2_id(t1.g, canvas_path, node.type,
                                indices[node.original_id])
              ELSE t1
        pred_sigs == neighbor_sigs(nodes, predecessors_of(edges, node.original_id))
        succ_sigs == neighbor_sigs(nodes, successors_of(edges, node.original_id))
        t3 == IF t2.id = NoId /\ (pred_sigs /= <<>> \/ succ_sigs /= <<>>)
              THEN get_tier3_id(t2.g, canvas_path, node.type, node.args,
                                pred_sigs, succ_sigs)
              ELSE t2
    IN IF t3.id = NoId
       THEN get_tier4_id(t3.g, canvas_path, node.type, node.kind, i - 1)
       ELSE t3

RECURSIVE generate_loop(_, _, _, _, _, _)
generate_loop(g, result, nodes, edges, canvas_path, i) ==
    IF i > Len(nodes) THEN [result |-> result, g |-> g]
    ELSE LET t == generate_one(g, nodes, edges, canvas_path, i)
             id == nodes[i].original_id
         IN generate_loop([t.g EXCEPT !.node_map = DictPut(@, id, t.id)],
                          DictPut(result, id, t.id),
                          nodes, edges, canvas_path, i + 1)

\* NodeIDGenerator.generate_ids on generator g: [result, g]
generate_ids(g, nodes, edges, canvas_path) ==
    generate_loop(reset(g), EmptyDict, nodes, edges, canvas_path, 1)

\* generate_canvas_path
generate_canvas_path(canvas_id, parent_path) ==
    IF parent_path /= <<>> THEN parent_path \o <<"/">> \o canvas_id
    ELSE canvas_id

(***************************************************************************)
(* core.py: the enums, by their values.                                    *)
(***************************************************************************)
SK_send_receive == <<"s", "e", "n", "d", "_", "r", "e", "c", "e", "i", "v", "e">>
SK_throw_catch == <<"t", "h", "r", "o", "w", "_", "c", "a", "t", "c", "h">>
SK_value == <<"v", "a", "l", "u", "e">>
SK_array == <<"a", "r", "r", "a", "y">>
SK_table == <<"t", "a", "b", "l", "e">>
NS_global == <<"g", "l", "o", "b", "a", "l">>
NS_instance == <<"i", "n", "s", "t", "a", "n", "c", "e">>
NS_hierarchical == <<"h", "i", "e", "r", "a", "r", "c", "h", "i", "c", "a", "l">>
EK_wire == <<"w", "i", "r", "e">>
EK_symbol == <<"s", "y", "m", "b", "o", "l">>
R_writer == <<"w", "r", "i", "t", "e", "r">>
R_reader == <<"r", "e", "a", "d", "e", "r">>

\* None, for an Optional value that is a str or an enum member.
None == <<>>

(***************************************************************************)
(* symbols.py: SymbolExtractor.                                            *)
(***************************************************************************)
SEND_RECEIVE_WRITERS ==
    {<<"s", "e", "n", "d">>,
     <<"s">>,
     <<"s", "e", "n", "d", "~">>,
     <<"s", "~">>}

SEND_RECEIVE_READERS ==
    {<<"r", "e", "c", "e", "i", "v", "e">>,
     <<"r">>,
     <<"r", "e", "c", "e", "i", "v", "e", "~">>,
     <<"r", "~">>}

THROW_CATCH_WRITERS == {<<"t", "h", "r", "o", "w", "~">>}

THROW_CATCH_READERS == {<<"c", "a", "t", "c", "h", "~">>}

VALUE_OBJECTS == {<<"v", "a", "l", "u", "e">>, <<"v">>}

ARRAY_OBJECTS ==
    {<<"a", "r", "r", "a", "y">>,
     <<"t", "a", "b", "l", "e">>,
     <<"t", "a", "b", "r", "e", "a", "d">>,
     <<"t", "a", "b", "w", "r", "i", "t", "e">>,
     <<"t", "a", "b", "r", "e", "a", "d", "~">>,
     <<"t", "a", "b", "w", "r", "i", "t", "e", "~">>,
     <<"t", "a", "b", "r", "e", "a", "d", "4", "~">>,
     <<"t", "a", "b", "o", "s", "c", "4", "~">>,
     <<"t", "a", "b", "p", "l", "a", "y", "~">>,
     <<"s", "o", "u", "n", "d", "f", "i", "l", "e", "r">>,
     <<"t", "a", "b", "s", "e", "n", "d", "~">>,
     <<"t", "a", "b", "r", "e", "c", "e", "i", "v", "e", "~">>}

DELAY_OBJECTS ==
    {<<"d", "e", "l", "w", "r", "i", "t", "e", "~">>,
     <<"d", "e", "l", "r", "e", "a", "d", "~">>,
     <<"d", "e", "l", "r", "e", "a", "d", "4", "~">>,
     <<"v", "d", "~">>}

OTHER_WRITERS ==
    {<<"d", "e", "l", "w", "r", "i", "t", "e", "~">>,
     <<"t", "a", "b", "w", "r", "i", "t", "e">>,
     <<"t", "a", "b", "w", "r", "i", "t", "e", "~">>}

OTHER_READERS ==
    {<<"d", "e", "l", "r", "e", "a", "d", "~">>,
     <<"d", "e", "l", "r", "e", "a", "d", "4", "~">>,
     <<"v", "d", "~">>,
     <<"t", "a", "b", "r", "e", "a", "d">>,
     <<"t", "a", "b", "r", "e", "a", "d", "~">>,
     <<"t", "a", "b", "r", "e", "a", "d", "4", "~">>,
     <<"t", "a", "b", "o", "s", "c", "4", "~">>,
     <<"t", "a", "b", "p", "l", "a", "y", "~">>,
     <<"t", "a", "b", "r", "e", "c", "e", "i", "v", "e", "~">>}

T_tabsend == <<"t", "a", "b", "s", "e", "n", "d", "~">>

\* SymbolExtractor.__init__
NewExtractor == [symbols |-> <<>>, symbol_counter |-> 0]

\* SymbolExtractor.reset
extractor_reset(ex) == [symbols |-> <<>>, symbol_counter |-> 0]

\* INSTANCE_LOCAL_PATTERN.match: ^\$0[-_]
instance_local_match(raw) ==
    Len(raw) >= 3 /\ raw[1] = "$" /\ raw[2] = "0" /\ raw[3] \in {"-", "_"}

\* SymbolExtractor._parse_namespace: [resolved, namespace, instance_local]
parse_namespace(raw_symbol) ==
    IF instance_local_match(raw_symbol)
    THEN [resolved |-> raw_symbol, namespace |-> NS_instance,
          instance_local |-> TRUE]
    ELSE IF Contains(raw_symbol, "/") /\ raw_symbol[1] /= "/"
    THEN [resolved |-> raw_symbol, namespace |-> NS_hierarchical,
          instance_local |-> FALSE]
    ELSE [resolved |-> raw_symbol, namespace |-> NS_global,
          instance_local |-> FALSE]

\* SymbolExtractor._get_symbol_kind
get_symbol_kind(obj_type) ==
    LET base_type == SplitLast(obj_type, "/")
    IN IF base_type \in SEND_RECEIVE_WRITERS \cup SEND_RECEIVE_READERS
       THEN SK_send_receive
       ELSE IF base_type \in THROW_CATCH_WRITERS \cup THROW_CATCH_READERS
       THEN SK_throw_catch
       ELSE IF base_type \in VALUE_OBJECTS THEN SK_value
       ELSE IF base_type \in ARRAY_OBJECTS THEN SK_array
       ELSE IF base_type \in DELAY_OBJECTS THEN SK_table
       ELSE None

\* SymbolExtractor._get_role
get_role(obj_type) ==
    LET base_type == SplitLast(obj_type, "/")
    IN IF base_type \in SEND_RECEIVE_WRITERS THEN R_writer
       ELSE IF base_type \in SEND_RECEIVE_READERS THEN R_reader
       ELSE IF base_type \in THROW_CATCH_WRITERS THEN R_writer
       ELSE IF base_type \in THROW_CATCH_READERS THEN R_reader
       ELSE IF base_type \in OTHER_WRITERS THEN R_writer
       ELSE IF base_type \in OTHER_READERS THEN R_reader
       ELSE IF base_type = T_tabsend THEN R_writer
       ELSE IF base_type \in VALUE_OBJECTS THEN R_reader
       ELSE None

\* The key of the _symbols dict: f"{kind}:{resolved}:{namespace}"
symbol_key_by_name(kind, resolved, namespace) == resolved

symbol_key(kind, resolved, namespace) ==
    kind \o <<":">> \o resolved \o <<":">> \o namespace

\* SymbolExtractor._get_symbol_id with the counter already incremented
symbol_id(counter) == <<"s", "y", "m">> \o NumStr(counter)

\* SymbolExtractor.extract_from_node on extractor ex: the extractor after it
extract_from_node(ex, node_id, obj_type, args) ==
    LET symbol_kind == get_symbol_kind(obj_type)
        role == get_role(obj_type)
    IN IF symbol_kind = None \/ args = <<>> \/ role = None THEN ex
       ELSE
       LET raw_symbol == args[1]
           ns == parse_namespace(raw_symbol)
           key_str == symbol_key(symbol_kind, ns.resolved, ns.namespace)
           have == {i \in 1..Len(ex.symbols) : ex.symbols[i].key = key_str}
           endpoint == [node |-> node_id]
       IN IF have /= {}
          THEN LET i == CHOOSE i \in have : TRUE
               IN IF role = R_writer
                  THEN [ex EXCEPT !.symbols[i].writers = Append(@, endpoint)]
                  ELSE [ex EXCEPT !.symbols[i].readers = Append(@, endpoint)]
          ELSE LET symbol ==
                       [key |-> key_str,
                        id |-> symbol_id(ex.symbol_counter + 1),
                        kind |-> symbol_kind,
                        raw |-> raw_symbol,
                        resolved |-> ns.resolved,
                        namespace |-> ns.namespace,
                        instance_local |-> ns.instance_local,
                        writers |-> IF role = R_writer THEN <<endpoint>> ELSE <<>>,
                        readers |-> IF role = R_writer THEN <<>> ELSE <<endpoint>>]
               IN [symbols |-> Append(ex.symbols, symbol),
                   symbol_counter |-> ex.symbol_counter + 1]

\* SymbolExtractor.get_symbols
get_symbols(ex) == ex.symbols

\* The domain of the edges of a symbol, as generate_symbol_edges decides it
symbol_edge_domain(symbol) ==
    IF symbol.kind \in {SK_throw_catch, SK_send_receive}
    THEN IF Contains(symbol.raw, "~") \/ symbol.kind = SK_throw_catch
         THEN D_signal
         ELSE D_control
    ELSE D_control

\* The confidence of the edges of a symbol
symbol_edge_confidence(symbol) ==
    IF symbol.instance_local THEN <<"0", ".", "7">>
    ELSE IF symbol.namespace = NS_global THEN <<"0", ".", "9">>
    ELSE <<"1", ".", "0">>

\* The edges of one symbol: the inner loop over readers for writer w, from
\* reader r on, with the edges made so far.
RECURSIVE symbol_edges_readers(_, _, _, _)
symbol_edges_readers(symbol, w, r, edges) ==
    IF r > Len(symbol.readers) THEN edges
    ELSE symbol_edges_readers(symbol, w, r + 1, Append(edges,
             [id |-> <<"e", "_", "s", "y", "m">> \o NumStr(Len(edges) + 1),
              kind |-> EK_symbol,
              domain |-> symbol_edge_domain(symbol),
              from_endpoint |-> [node |-> symbol.writers[w].node, outlet |-> 0],
              to_endpoint |-> [node |-> symbol.readers[r].node, inlet |-> 0],
              symbol |-> symbol.resolved,
              confidence |-> symbol_edge_confidence(symbol)]))

\* One edge per writer, to the reader at the same position.
RECURSIVE symbol_edges_writers_paired(_, _, _)
symbol_edges_writers_paired(symbol, w, edges) ==
    IF w > Len(symbol.writers) THEN edges
    ELSE symbol_edges_writers_paired(symbol, w + 1,
             IF w > Len(symbol.readers) THEN edges
             ELSE SubSeq(symbol_edges_readers(symbol, w, w, edges),
                         1, Len(edges) + 1))

\* The loop over the writers of one symbol, from writer w on
RECURSIVE symbol_edges_writers(_, _, _)
symbol_edges_writers(symbol, w, edges) ==
    IF w > Len(symbol.writers) THEN edges
    ELSE symbol_edges_writers(symbol, w + 1,
                              symbol_edges_readers(symbol, w, 1, edges))

RECURSIVE symbol_edges_loop(_, _, _)
symbol_edges_loop(symbols, s, edges) ==
    IF s > Len(symbols) THEN edges
    ELSE symbol_edges_loop(symbols, s + 1,
                           symbol_edges_writers(symbols[s], 1, edges))

\* SymbolExtractor.generate_symbol_edges
generate_symbol_edges(ex) == symbol_edges_loop(ex.symbols, 1, <<>>)

(***************************************************************************)
(* registry.py: ObjectRegistry.  A registry is                             *)
(* [objects, aliases, overrides, sources]; the built-in tables are a slice *)
(* vanilla objects with the arities of the source.                         *)
(***************************************************************************)
D_mixed == <<"m", "i", "x", "e", "d">>
IO_control == D_control
IO_signal == D_signal
IO_signal_or_control ==
    <<"s", "i", "g", "n", "a", "l", "_", "o", "r", "_", "c", "o", "n", "t",
      "r", "o", "l">>

\* s.isdigit()
isdigit(s) == s /= <<>> /\ \A i \in 1..Len(s) : \E d \in 1..10 : Digits[d] = s[i]

\* int(s) for a str of digits
RECURSIVE int_of(_)
int_of(s) ==
    IF s = <<>> THEN 0
    ELSE 10 * int_of(SubSeq(s, 1, Len(s) - 1))
         + ((CHOOSE d \in 1..10 : Digits[d] = s[Len(s)]) - 1)

\* sub in s, for two str
IsSubstring(sub, s) ==
    \E i \in 1..(Len(s) - Len(sub) + 1) : SubSeq(s, i, i + Len(sub) - 1) = sub

MaxOf(a, b) == IF a > b THEN a ELSE b

\* The rule texts of the override rules and the texts get_io_count looks for
RULE_outlets_1_plus_argc ==
    <<"o", "u", "t", "l", "e", "t", "s", " ", "=", " ", "1", " ", "+", " ",
      "a", "r", "g", "c">>

RULE_outlets_argc ==
    <<"o", "u", "t", "l", "e", "t", "s", " ", "=", " ", "a", "r", "g", "c">>

RULE_outlets_arg0_plus_1 ==
    <<"o", "u", "t", "l", "e", "t", "s", " ", "=", " ", "a", "r", "g", "0",
      " ", "+", " ", "1">>

RULE_inlets_argc ==
    <<"i", "n", "l", "e", "t", "s", " ", "=", " ", "a", "r", "g", "c">>

RULE_inlets_arg0 ==
    <<"i", "n", "l", "e", "t", "s", " ", "=", " ", "a", "r", "g", "0">>

RULE_outlets_max_argc ==
    <<"o", "u", "t", "l", "e", "t", "s", " ", "=", " ", "m", "a", "x", "(",
      "a", "r", "g", "c">>

RULE_inlets_max_argc ==
    <<"i", "n", "l", "e", "t", "s", " ", "=", " ", "m", "a", "x", "(", "a",
      "r", "g", "c">>

RULE_inlets_max_argc_2 ==
    <<"i", "n", "l", "e", "t", "s", " ", "=", " ", "m", "a", "x", "(", "a",
      "r", "g", "c", ",", " ", "2", ")">>

RULE_outlets_max_argc_2 ==
    <<"o", "u", "t", "l", "e", "t", "s", " ", "=", " ", "m", "a", "x", "(",
      "a", "r", "g", "c", ",", " ", "2", ")">>

\* The rows (key, aliases, inlets, outlets) of control_objects
control_objects ==
    <<<<<<"f", "l", "o", "a", "t">>, <<<<"f">>>>, 2, 1>>,
      <<<<"+">>, <<>>, 2, 1>>,
      <<<<"b", "a", "n", "g">>, <<<<"b">>>>, 1, 1>>,
      <<<<"t", "r", "i", "g", "g", "e", "r">>, <<<<"t">>>>, 1, -1>>,
      <<<<"p", "a", "c", "k">>, <<>>, -1, 1>>,
      <<<<"u", "n", "p", "a", "c", "k">>, <<>>, 1, -1>>,
      <<<<"r", "o", "u", "t", "e">>, <<>>, 1, -1>>,
      <<<<"s", "e", "l", "e", "c", "t">>, <<<<"s", "e", "l">>>>, 1, -1>>,
      <<<<"l", "o", "a", "d", "b", "a", "n", "g">>, <<>>, 0, 1>>,
      <<<<"p", "r", "i", "n", "t">>, <<>>, 1, 0>>>>

\* The rows (key, aliases, inlets, outlets) of dsp_objects
dsp_objects ==
    <<<<<<"o", "s", "c", "~">>, <<>>, 1, 1>>,
      <<<<"*", "~">>, <<>>, 2, 1>>,
      <<<<"a", "d", "c", "~">>, <<>>, 0, -1>>,
      <<<<"d", "a", "c", "~">>, <<>>, -1, 0>>,
      <<<<"r", "e", "a", "d", "s", "f", "~">>, <<>>, 1, -1>>,
      <<<<"w", "r", "i", "t", "e", "s", "f", "~">>, <<>>, -1, 0>>>>

\* The iolet specs the loops of _add_vanilla_control_objects make for a count
control_iolets(n) ==
    IF n > 0 THEN [i \in 1..n |-> IO_control]
    ELSE IF n = -1 THEN <<IO_control>>
    ELSE <<>>

\* The inlet specs the loop of _add_vanilla_dsp_objects makes for a count
dsp_inlets(n) ==
    IF n > 0 THEN [i \in 1..n |-> IF i = 1 THEN IO_signal_or_control ELSE IO_signal]
    ELSE IF n = -1 THEN <<IO_signal>>
    ELSE <<>>

\* The outlet specs the loop of _add_vanilla_dsp_objects makes for a count
dsp_outlets(n) ==
    IF n > 0 THEN [i \in 1..n |-> IO_signal]
    ELSE IF n = -1 THEN <<IO_signal>>
    ELSE <<>>

ObjectSpec(key, domain, inlets, outlets, aliases) ==
    [key |-> key, domain |-> domain, inlets |-> inlets, outlets |-> outlets,
     aliases |-> aliases]

OverrideRule(match_key, rule) == [match_key |-> match_key, rule |-> rule]

\* ObjectRegistry.register
RECURSIVE register_aliases(_, _, _)
register_aliases(aliases, names, key) ==
    IF names = <<>> THEN aliases
    ELSE register_aliases(DictPut(aliases, Head(names), key), Tail(names), key)

register(reg, spec) ==
    [reg EXCEPT !.objects = DictPut(@, spec.key, spec),
                !.aliases = register_aliases(@, spec.aliases, spec.key)]

RECURSIVE add_vanilla_control_objects(_, _)
add_vanilla_control_objects(reg, rows) ==
    IF rows = <<>> THEN reg
    ELSE LET item == Head(rows)
         IN add_vanilla_control_objects(
                register(reg, ObjectSpec(item[1], D_control,
                                         control_iolets(item[3]),
                                         control_iolets(item[4]), item[2])),
                Tail(rows))

RECURSIVE add_vanilla_dsp_objects(_, _)
add_vanilla_dsp_objects(reg, rows) ==
    IF rows = <<>> THEN reg
    ELSE LET item == Head(rows)
         IN add_vanilla_dsp_objects(
                register(reg, ObjectSpec(item[1], D_signal,
                                         dsp_inlets(item[3]),
                                         dsp_outlets(item[4]), <<>>)),
                Tail(rows))

\* The specs _add_send_receive_objects registers
send_receive_objects ==
    <<ObjectSpec(<<"s", "e", "n", "d">>, D_control, <<IO_control>>, <<>>, <<<<"s">>>>),
      ObjectSpec(<<"r", "e", "c", "e", "i", "v", "e">>, D_control, <<>>, <<IO_control>>, <<<<"r">>>>),
      ObjectSpec(<<"s", "e", "n", "d", "~">>, D_signal, <<IO_signal>>, <<>>, <<<<"s", "~">>>>),
      ObjectSpec(<<"r", "e", "c", "e", "i", "v", "e", "~">>, D_signal, <<>>, <<IO_signal>>, <<<<"r", "~">>>>),
      ObjectSpec(<<"t", "h", "r", "o", "w", "~">>, D_signal, <<IO_signal>>, <<>>, <<>>),
      ObjectSpec(<<"c", "a", "t", "c", "h", "~">>, D_signal, <<>>, <<IO_signal>>, <<>>),
      ObjectSpec(<<"v", "a", "l", "u", "e">>, D_control, <<IO_control>>, <<IO_control>>, <<<<"v">>>>)>>

\* The specs _add_interface_objects registers
interface_objects ==
    <<ObjectSpec(<<"i", "n", "l", "e", "t">>, D_control, <<>>, <<IO_control>>, <<>>),
      ObjectSpec(<<"o", "u", "t", "l", "e", "t">>, D_control, <<IO_control>>, <<>>, <<>>),
      ObjectSpec(<<"i", "n", "l", "e", "t", "~">>, D_signal, <<>>, <<IO_signal>>, <<>>),
      ObjectSpec(<<"o", "u", "t", "l", "e", "t", "~">>, D_signal, <<IO_signal>>, <<>>, <<>>)>>

RECURSIVE register_all(_, _)
register_all(reg, specs) ==
    IF specs = <<>> THEN reg
    ELSE register_all(register(reg, Head(specs)), Tail(specs))

\* The rules of _add_override_rules
override_rules ==
    <<OverrideRule(<<"r", "o", "u", "t", "e">>, RULE_outlets_1_plus_argc),
      OverrideRule(<<"s", "e", "l", "e", "c", "t">>, RULE_outlets_1_plus_argc),
      OverrideRule(<<"u", "n", "p", "a", "c", "k">>, RULE_outlets_argc),
      OverrideRule(<<"p", "a", "c", "k">>, RULE_inlets_argc),
      OverrideRule(<<"t", "r", "i", "g", "g", "e", "r">>, RULE_outlets_argc),
      OverrideRule(<<"d", "a", "c", "~">>, RULE_inlets_max_argc_2),
      OverrideRule(<<"a", "d", "c", "~">>, RULE_outlets_max_argc_2),
      OverrideRule(<<"r", "e", "a", "d", "s", "f", "~">>, RULE_outlets_arg0_plus_1),
      OverrideRule(<<"w", "r", "i", "t", "e", "s", "f", "~">>, RULE_inlets_arg0)>>

\* The name of the source _load_builtin_objects appends
S_pd_vanilla == <<"p", "d", "-", "v", "a", "n", "i", "l", "l", "a">>

\* ObjectRegistry.__init__: the built-in objects, override rules and source
BuiltinRegistry ==
    LET empty == [objects |-> EmptyDict, aliases |-> EmptyDict,
                  overrides |-> <<>>, sources |-> <<>>]
        r1 == add_vanilla_control_objects(empty, control_objects)
        r2 == add_vanilla_dsp_objects(r1, dsp_objects)
        r3 == register_all(r2, send_receive_objects)
        r4 == register_all(r3, interface_objects)
    IN [r4 EXCEPT !.overrides = override_rules,
                  !.sources = <<S_pd_vanilla>>]

\* ObjectRegistry.is_known
is_known(reg, key) == key \in DOMAIN reg.objects \/ key \in DOMAIN reg.aliases

\* ObjectRegistry.get: [found, spec]
registry_get(reg, key) ==
    IF key \in DOMAIN reg.objects
    THEN [found |-> TRUE, spec |-> reg.objects[key]]
    ELSE IF key \in DOMAIN reg.aliases
    THEN [found |-> TRUE, spec |-> reg.objects[reg.aliases[key]]]
    ELSE [found |-> FALSE, spec |-> ObjectSpec(<<>>, D_control, <<>>, <<>>, <<>>)]

\* ObjectRegistry.get_domain
get_domain(reg, obj_type) ==
    LET g == registry_get(reg, obj_type)
    IN IF g.found THEN g.spec.domain
       ELSE IF EndsWith(obj_type, "~") THEN D_signal
       ELSE D_control

\* The counts of get_io_count under the override rule text: <<inlets, outlets>>
apply_override(rule, inlet_count, outlet_count, argc, arg0) ==
    IF IsSubstring(RULE_outlets_1_plus_argc, rule) THEN <<inlet_count, 1 + argc>>
    ELSE IF IsSubstring(RULE_outlets_argc, rule) THEN <<inlet_count, MaxOf(argc, 1)>>
    ELSE IF IsSubstring(RULE_outlets_arg0_plus_1, rule) THEN <<inlet_count, arg0 + 1>>
    ELSE IF IsSubstring(RULE_inlets_argc, rule) THEN <<MaxOf(argc, 1), outlet_count>>
    ELSE IF IsSubstring(RULE_inlets_arg0, rule) THEN <<MaxOf(arg0, 1), outlet_count>>
    ELSE IF IsSubstring(RULE_outlets_max_argc, rule) THEN <<inlet_count, MaxOf(argc, 2)>>
    ELSE IF IsSubstring(RULE_inlets_max_argc, rule) THEN <<MaxOf(argc, 2), outlet_count>>
    ELSE <<inlet_count, outlet_count>>

\* get_io_count matching the rules by the type as written
canonical_key_unresolved(reg, obj_type) == obj_type

\* The key get_io_count matches the override rules by
canonical_key(reg, obj_type) ==
    IF obj_type \in DOMAIN reg.aliases THEN reg.aliases[obj_type] ELSE obj_type

\* ObjectRegistry.get_io_count: <<inlet_count, outlet_count>>
get_io_count(reg, obj_type, args) ==
    LET g == registry_get(reg, obj_type)
        matching == {i \in 1..Len(reg.overrides) :
                        reg.overrides[i].match_key = canonical_key(reg, obj_type)}
    IN IF matching /= {}
       THEN LET rule == reg.overrides[CHOOSE i \in matching :
                                          \A j \in matching : i <= j]
                arg0 == IF args /= <<>> /\ isdigit(args[1])
                        THEN int_of(args[1]) ELSE 1
            IN apply_override(rule.rule,
                              IF g.found THEN Len(g.spec.inlets) ELSE 1,
                              IF g.found THEN Len(g.spec.outlets) ELSE 1,
                              Len(args), arg0)
       ELSE IF g.found THEN <<Len(g.spec.inlets), Len(g.spec.outlets)>>
       ELSE <<1, 1>>

(***************************************************************************)
(* analysis.py: GraphAnalyzer.                                             *)
(***************************************************************************)
\* adjacency[node] of a defaultdict(list): [] for a node without entry
adj_get(adjacency, node) ==
    IF node \in DOMAIN adjacency THEN adjacency[node] ELSE <<>>

\* An adjacency that follows the edges of every kind.
RECURSIVE build_adjacency_any_kind(_, _)
build_adjacency_any_kind(edges, a) ==
    IF edges = <<>> THEN a
    ELSE LET e == Head(edges)
             src == e.from_endpoint.node
             dst == e.to_endpoint.node
         IN build_adjacency_any_kind(Tail(edges),
                [adjacency |->
                     DictPut(a.adjacency, src,
                             Append(adj_get(a.adjacency, src), dst)),
                 reverse_adjacency |->
                     DictPut(a.reverse_adjacency, dst,
                             Append(adj_get(a.reverse_adjacency, dst), src))])

\* GraphAnalyzer._build_adjacency over the edges left, from the lists a
RECURSIVE build_adjacency(_, _)
build_adjacency(edges, a) ==
    IF edges = <<>> THEN a
    ELSE LET e == Head(edges)
             src == e.from_endpoint.node
             dst == e.to_endpoint.node
         IN build_adjacency(Tail(edges),
                IF e.kind = EK_wire
                THEN [adjacency |->
                          DictPut(a.adjacency, src,
                                  Append(adj_get(a.adjacency, src), dst)),
                      reverse_adjacency |->
                          DictPut(a.reverse_adjacency, dst,
                                  Append(adj_get(a.reverse_adjacency, dst), src))]
                ELSE a)

\* GraphAnalyzer.__init__
NewAnalyzer(ir_edges) ==
    build_adjacency(ir_edges,
                    [adjacency |-> EmptyDict, reverse_adjacency |-> EmptyDict])

MinOf(a, b) == IF a < b THEN a ELSE b

\* The pop loop of strongconnect: pops the stack down to node; the popped
\* nodes in pop order are the component.
RECURSIVE pop_scc(_, _, _)
pop_scc(t, node, scc) ==
    LET w == t.stack[Len(t.stack)]
        t1 == [t EXCEPT !.stack = SubSeq(@, 1, Len(@) - 1),
                        !.on_stack = DictPut(@, w, FALSE)]
        scc1 == Append(scc, w)
    IN IF w = node
       THEN IF Len(scc1) > 1 THEN [t1 EXCEPT !.sccs = Append(@, scc1)] ELSE t1
       ELSE pop_scc(t1, node, scc1)

\* find_sccs.strongconnect on the state t of Tarjan's algorithm:
\* [index_counter, stack, lowlink, index, on_stack, sccs]
RECURSIVE strongconnect(_, _, _)
RECURSIVE strongconnect_successors(_, _, _, _)
strongconnect(t, adjacency, node) ==
    LET t1 == [index_counter |-> t.index_counter + 1,
               stack |-> Append(t.stack, node),
               lowlink |-> DictPut(t.lowlink, node, t.index_counter),
               index |-> DictPut(t.index, node, t.index_counter),
               on_stack |-> DictPut(t.on_stack, node, TRUE),
               sccs |-> t.sccs]
        t2 == strongconnect_successors(t1, adjacency, node,
                                       adj_get(adjacency, node))
    IN IF t2.lowlink[node] = t2.index[node]
       THEN pop_scc(t2, node, <<>>)
       ELSE t2

\* The loop of strongconnect over the successors left
strongconnect_successors(t, adjacency, node, successors) ==
    IF successors = <<>> THEN t
    ELSE LET successor == Head(successors)
         IN IF successor \notin DOMAIN t.index
            THEN LET t1 == strongconnect(t, adjacency, successor)
                 IN strongconnect_successors(
                        [t1 EXCEPT !.lowlink[node] =
                             MinOf(@, t1.lowlink[successor])],
                        adjacency, node, Tail(successors))
            ELSE IF successor \in DOMAIN t.on_stack /\ t.on_stack[successor]
            THEN strongconnect_successors(
                     [t EXCEPT !.lowlink[node] = MinOf(@, t.index[successor])],
                     adjacency, node, Tail(successors))
            ELSE strongconnect_successors(t, adjacency, node, Tail(successors))

\* The loop of find_sccs over all_nodes, in the order the set is iterated
RECURSIVE find_sccs_loop(_, _, _)
find_sccs_loop(t, adjacency, order) ==
    IF order = <<>> THEN t
    ELSE find_sccs_loop(
             IF Head(order) \notin DOMAIN t.index
             THEN strongconnect(t, adjacency, Head(order))
             ELSE t,
             adjacency, Tail(order))

\* all_nodes of find_sccs
all_nodes(a) == DOMAIN a.adjacency \cup DOMAIN a.reverse_adjacency

S_scc == <<"s", "c", "c">>
S_feedback_cycle == <<"f", "e", "e", "d", "b", "a", "c", "k", "_", "c", "y", "c", "l", "e">>

\* The state of Tarjan's algorithm when find_sccs starts
NewTarjan ==
    [index_counter |-> 0, stack |-> <<>>, lowlink |-> EmptyDict,
     index |-> EmptyDict, on_stack |-> EmptyDict, sccs |-> <<>>]

\* The conversion of the components found to IRSCC objects
to_irsccs(sccs) ==
    [i \in 1..Len(sccs) |->
        [id |-> S_scc \o NumStr(i), nodes |-> sccs[i],
         reason |-> S_feedback_cycle]]

\* GraphAnalyzer.find_sccs, the set all_nodes being iterated in the given order
find_sccs(a, order) ==
    to_irsccs(find_sccs_loop(NewTarjan, a.adjacency, order).sccs)

\* The loop of find_sccs over all_nodes in every order the set can be
\* iterated: a node already indexed is passed over, so an order counts by
\* the nodes strongconnect is started on.  The lists of components the
\* orders end with.
RECURSIVE find_sccs_loop_any_order(_, _, _)
find_sccs_loop_any_order(t, adjacency, nodes) ==
    LET unindexed == nodes \ DOMAIN t.index
    IN IF unindexed = {} THEN {t.sccs}
       ELSE UNION {find_sccs_loop_any_order(strongconnect(t, adjacency, n),
                                            adjacency, nodes) :
                      n \in unindexed}

\* GraphAnalyzer.find_sccs: the results the iteration orders of all_nodes
\* can give
find_sccs_any_order(a) ==
    {to_irsccs(sccs) :
        sccs \in find_sccs_loop_any_order(NewTarjan, a.adjacency, all_nodes(a))}

\* The types of the inlet and outlet markers find_interface_ports looks for
INLET_TYPES == {<<"i", "n", "l", "e", "t">>, <<"i", "n", "l", "e", "t", "~">>}
OUTLET_TYPES == {<<"o", "u", "t", "l", "e", "t">>, <<"o", "u", "t", "l", "e", "t", "~">>}
T_inlet_tilde == <<"i", "n", "l", "e", "t", "~">>
T_outlet_tilde == <<"o", "u", "t", "l", "e", "t", "~">>

\* n.layout.x if n.layout else 0
layout_x(n) == IF n.layout = None THEN 0 ELSE n.layout.x

\* The markers in list order.
markers_unsorted(ns) == ns

\* list.sort(key=lambda n: (n.layout.x if n.layout else 0)): stable
RECURSIVE insert_by_x(_, _)
insert_by_x(n, sorted) ==
    IF sorted = <<>> THEN <<n>>
    ELSE IF layout_x(n) < layout_x(Head(sorted)) THEN <<n>> \o sorted
    ELSE <<Head(sorted)>> \o insert_by_x(n, Tail(sorted))

RECURSIVE sorted_by_x(_)
sorted_by_x(ns) ==
    IF ns = <<>> THEN <<>>
    ELSE insert_by_x(ns[Len(ns)], sorted_by_x(SubSeq(ns, 1, Len(ns) - 1)))

\* The IRInterfacePort list of the sorted markers; signal_type is the type
\* whose ports are signal ports
interface_ports(markers, signal_type) ==
    [i \in 1..Len(markers) |->
        [node |-> markers[i].id, index |-> i - 1,
         domain |-> IF markers[i].type = signal_type THEN D_signal
                    ELSE D_control]]

\* GraphAnalyzer.find_interface_ports on the nodes of the IR
find_interface_ports(nodes) ==
    [inlets |->
         interface_ports(
             sorted_by_x(SelectSeq(nodes, LAMBDA n : n.type \in INLET_TYPES)),
             T_inlet_tilde),
     outlets |->
         interface_ports(
             sorted_by_x(SelectSeq(nodes, LAMBDA n : n.type \in OUTLET_TYPES)),
             T_outlet_tilde)]

\* The loop of find_symbols_as_interface over the symbols left
RECURSIVE exposed_symbols(_)
exposed_symbols(symbols) ==
    IF symbols = <<>> THEN <<>>
    ELSE LET symbol == Head(symbols)
             has_writers == Len(symbol.writers) > 0
             has_readers == Len(symbol.readers) > 0
         IN (IF symbol.instance_local THEN <<>>
             ELSE IF has_readers /\ ~has_writers
             THEN <<[kind |-> symbol.kind, name |-> symbol.resolved,
                     role |-> R_reader]>>
             ELSE IF has_writers /\ ~has_readers
             THEN <<[kind |-> symbol.kind, name |-> symbol.resolved,
                     role |-> R_writer]>>
             ELSE <<>>)
            \o exposed_symbols(Tail(symbols))

\* GraphAnalyzer.find_symbols_as_interface
find_symbols_as_interface(symbols) ==
    [enabled |-> Len(exposed_symbols(symbols)) > 0,
     exposed |-> exposed_symbols(symbols)]

\* GraphAnalyzer.analyze on a finished IR: the IRAnalysis records the
\* iteration orders of all_nodes can give
analyze_any_order(ir) ==
    {[sccs |-> sccs,
      interfaces |-> find_interface_ports(ir.nodes),
      symbols_as_interface |-> find_symbols_as_interface(ir.symbols)] :
        sccs \in find_sccs_any_order(NewAnalyzer(ir.edges))}

(***************************************************************************)
(* core.py: IRPatch.compute_graph_hash.                                    *)
(***************************************************************************)
\* The escapes json.dumps applies inside a string to the characters used here
RECURSIVE json_escape(_)
json_escape(s) ==
    IF s = <<>> THEN <<>>
    ELSE (IF Head(s) \in {"\"", "\\"} THEN <<"\\", Head(s)>> ELSE <<Head(s)>>)
         \o json_escape(Tail(s))

\* json.dumps of a str
json_str(s) == <<"\"">> \o json_escape(s) \o <<"\"">>

\* json.dumps of a list or tuple whose items are already encoded
json_list(items) == <<"[">> \o Join(<<",", " ">>, items) \o <<"]">>

\* None, for an Optional[int].
NoPort == -1

\* x or 0 for an Optional[int]
or_zero(x) == IF x = NoPort THEN 0 ELSE x

\* The tuple of a node without its arguments.
node_canonical_no_args(n) == <<n.id, n.type, <<>>>>

\* (n.id, n.type, tuple(n.args))
node_canonical(n) == <<n.id, n.type, n.args>>

\* (e.from_endpoint.node, outlet or 0, e.to_endpoint.node, inlet or 0)
edge_canonical(e) ==
    <<e.from_endpoint.node, or_zero(e.from_endpoint.outlet),
      e.to_endpoint.node, or_zero(e.to_endpoint.inlet)>>

\* The node tuples in list order.
nodes_unsorted(ts) == ts

\* sorted(tuples, key=lambda x: x[0]): stable, by id only
RECURSIVE insert_by_id(_, _)
insert_by_id(t, sorted) ==
    IF sorted = <<>> THEN <<t>>
    ELSE IF StrLess(t[1], Head(sorted)[1]) THEN <<t>> \o sorted
    ELSE <<Head(sorted)>> \o insert_by_id(t, Tail(sorted))

RECURSIVE sorted_by_id(_)
sorted_by_id(ts) ==
    IF ts = <<>> THEN <<>>
    ELSE insert_by_id(ts[Len(ts)], sorted_by_id(SubSeq(ts, 1, Len(ts) - 1)))

\* tuple < tuple for (str, int, str, int)
edge_tuple_less(a, b) ==
    IF a[1] /= b[1] THEN StrLess(a[1], b[1])
    ELSE IF a[2] /= b[2] THEN a[2] < b[2]
    ELSE IF a[3] /= b[3] THEN StrLess(a[3], b[3])
    ELSE a[4] < b[4]

\* sorted(tuples, key=lambda x: (x[0], x[1], x[2], x[3]))
RECURSIVE insert_edge_tuple(_, _)
insert_edge_tuple(t, sorted) ==
    IF sorted = <<>> THEN <<t>>
    ELSE IF edge_tuple_less(t, Head(sorted)) THEN <<t>> \o sorted
    ELSE <<Head(sorted)>> \o insert_edge_tuple(t, Tail(sorted))

RECURSIVE sorted_edge_tuples(_)
sorted_edge_tuples(ts) ==
    IF ts = <<>> THEN <<>>
    ELSE insert_edge_tuple(ts[Len(ts)],
                           sorted_edge_tuples(SubSeq(ts, 1, Len(ts) - 1)))

\* nodes_canonical of compute_graph_hash
nodes_canonical(nodes) ==
    sorted_by_id([i \in 1..Len(nodes) |-> node_canonical(nodes[i])])

\* edges_canonical of compute_graph_hash
edges_canonical(edges) ==
    LET wires == SelectSeq(edges, LAMBDA e : e.kind = EK_wire)
    IN sorted_edge_tuples([i \in 1..Len(wires) |-> edge_canonical(wires[i])])

json_node(t) ==
    json_list(<<json_str(t[1]), json_str(t[2]),
                json_list([i \in 1..Len(t[3]) |-> json_str(t[3][i])])>>)

json_edge(t) ==
    json_list(<<json_str(t[1]), NumStr(t[2]), json_str(t[3]), NumStr(t[4])>>)

\* json.dumps({"nodes": nodes_canonical, "edges": edges_canonical},
\*            sort_keys=True)
graph_content(nodes, edges) ==
    LET ns == nodes_canonical(nodes)
        es == edges_canonical(edges)
    IN <<"{">> \o json_str(<<"e", "d", "g", "e", "s">>) \o <<":", " ">>
       \o json_list([i \in 1..Len(es) |-> json_edge(es[i])])
       \o <<",", " ">> \o json_str(<<"n", "o", "d", "e", "s">>) \o <<":", " ">>
       \o json_list([i \in 1..Len(ns) |-> json_node(ns[i])])
       \o <<"}">>

\* hashlib.sha256(content).hexdigest(), taken as collision-free.
Sha256Hex(content) == <<"<">> \o content \o <<">">>

\* IRPatch.compute_graph_hash
compute_graph_hash(ir) == Sha256Hex(graph_content(ir.nodes, ir.edges))

(***************************************************************************)
(* build.py: IRBuilder.  A pdpy object is a record                         *)
(* [cls, className, args, id, position, text, targets, name, nodes, edges],*)
(* cls being the name of its Python class; a Canvas holds its objects in   *)
(* nodes and its connections [source |-> [id, port], sink |-> [id, port]]  *)
(* in edges.  The builder is the record of the fields of IRBuilder.        *)
(***************************************************************************)
K_comment == <<"c", "o", "m", "m", "e", "n", "t">>
K_gui == <<"g", "u", "i">>
K_subpatch == <<"s", "u", "b", "p", "a", "t", "c", "h">>
K_atom == <<"a", "t", "o", "m">>
K_abstraction_instance ==
    <<"a", "b", "s", "t", "r", "a", "c", "t", "i", "o", "n", "_", "i", "n",
      "s", "t", "a", "n", "c", "e">>

CLS_Comment == <<"C", "o", "m", "m", "e", "n", "t">>
CLS_Msg == <<"M", "s", "g">>
CLS_Canvas == <<"C", "a", "n", "v", "a", "s">>
CLS_Obj == <<"O", "b", "j">>
GUI_CLASSES ==
    {<<"G", "u", "i">>, <<"T", "o", "g", "g", "l", "e">>, <<"B", "n", "g">>,
     <<"S", "l", "i", "d", "e", "r">>, <<"R", "a", "d", "i", "o">>,
     <<"N", "b", "x">>, <<"V", "u">>, <<"C", "n", "v">>}
ATOM_TYPES == {<<"f", "l", "o", "a", "t", "a", "t", "o", "m">>,
               <<"s", "y", "m", "b", "o", "l", "a", "t", "o", "m">>,
               <<"l", "i", "s", "t", "b", "o", "x">>}
T_list == <<"l", "i", "s", "t">>
T_float == <<"f", "l", "o", "a", "t">>
T_comment == <<"c", "o", "m", "m", "e", "n", "t">>
T_message == <<"m", "e", "s", "s", "a", "g", "e">>
S_root == <<"r", "o", "o", "t">>
S_untitled == <<"u", "n", "t", "i", "t", "l", "e", "d">>
S_UNKNOWN_OBJECT ==
    <<"U", "N", "K", "N", "O", "W", "N", "_", "O", "B", "J", "E", "C", "T">>
S_INVALID_CONNECTION ==
    <<"I", "N", "V", "A", "L", "I", "D", "_", "C", "O", "N", "N", "E", "C",
      "T", "I", "O", "N">>

UpperCase == <<"A", "B", "C", "D", "E", "F", "G", "H", "I", "J", "K", "L", "M",
               "N", "O", "P", "Q", "R", "S", "T", "U", "V", "W", "X", "Y", "Z">>
LowerCase == <<"a", "b", "c", "d", "e", "f", "g", "h", "i", "j", "k", "l", "m",
               "n", "o", "p", "q", "r", "s", "t", "u", "v", "w", "x", "y", "z">>

\* str.lower()
lower(s) ==
    [i \in 1..Len(s) |->
        IF \E k \in 1..26 : UpperCase[k] = s[i]
        THEN LowerCase[CHOOSE k \in 1..26 : UpperCase[k] = s[i]]
        ELSE s[i]]

\* str.split(): the words between runs of blanks
RECURSIVE split_words(_, _, _)
split_words(s, word, words) ==
    IF s = <<>> THEN (IF word = <<>> THEN words ELSE Append(words, word))
    ELSE IF Head(s) \in {" ", "\t"}
    THEN split_words(Tail(s), <<>>,
                     IF word = <<>> THEN words ELSE Append(words, word))
    ELSE split_words(Tail(s), Append(word, Head(s)), words)

split(s) == split_words(s, <<>>, <<>>)

\* IRBuilder.__init__
NewBuilder ==
    [id_generator |-> NewGenerator,
     symbol_extractor |-> NewExtractor,
     canvas_counter |-> 0,
     edge_counter |-> 0,
     node_id_map |-> EmptyDict,
     subpatch_map |-> EmptyDict,
     diagnostics |-> [errors |-> <<>>, warnings |-> <<>>],
     abstractions |-> <<>>,
     externals |-> <<>>]

\* _reset that leaves the counters and the maps of the last build
builder_reset_keeps_maps(b) ==
    [b EXCEPT !.id_generator = reset(b.id_generator),
              !.symbol_extractor = extractor_reset(b.symbol_extractor),
              !.diagnostics = [errors |-> <<>>, warnings |-> <<>>]]

\* IRBuilder._reset
builder_reset(b) ==
    [id_generator |-> reset(b.id_generator),
     symbol_extractor |-> extractor_reset(b.symbol_extractor),
     canvas_counter |-> 0,
     edge_counter |-> 0,
     node_id_map |-> EmptyDict,
     subpatch_map |-> EmptyDict,
     diagnostics |-> [errors |-> <<>>, warnings |-> <<>>],
     abstractions |-> <<>>,
     externals |-> <<>>]

\* _get_canvas_id that does not count
get_canvas_id_uncounted(b) == [id |-> <<"c">> \o NumStr(b.canvas_counter), b |-> b]

\* IRBuilder._get_canvas_id: [id, b]
get_canvas_id(b) ==
    [id |-> <<"c">> \o NumStr(b.canvas_counter),
     b |-> [b EXCEPT !.canvas_counter = @ + 1]]

\* IRBuilder._get_edge_id: [id, b]
get_edge_id(b) ==
    [id |-> <<"e">> \o NumStr(b.edge_counter + 1),
     b |-> [b EXCEPT !.edge_counter = @ + 1]]

\* IRBuilder._infer_domain
infer_domain(reg, obj_type, args) ==
    LET domain == get_domain(reg, obj_type)
    IN IF domain /= D_control THEN domain
       ELSE IF EndsWith(obj_type, "~") THEN D_signal
       ELSE D_control

\* IRBuilder._is_abstraction
is_abstraction(reg, obj_type) ==
    IF is_known(reg, obj_type) THEN FALSE
    ELSE Contains(obj_type, "/") \/ Contains(obj_type, "\\")

\* IRBuilder._classify_node_kind
classify_node_kind(reg, obj) ==
    IF obj.cls = CLS_Comment THEN K_comment
    ELSE IF obj.cls = CLS_Msg THEN K_message
    ELSE IF obj.cls \in GUI_CLASSES THEN K_gui
    ELSE IF obj.cls = CLS_Canvas THEN K_subpatch
    ELSE IF is_abstraction(reg, obj.className) THEN K_abstraction_instance
    ELSE IF obj.className \in ATOM_TYPES THEN K_atom
    ELSE K_object

\* IRBuilder._get_object_type
get_object_type(obj) ==
    IF obj.className /= None
    THEN IF obj.className \in {T_list, T_float} /\ obj.args /= <<>>
              /\ split(obj.args[1]) /= <<>>
         THEN split(obj.args[1])[1]
         ELSE obj.className
    ELSE lower(obj.cls)

\* The loop of _get_object_args that splits every argument into words
RECURSIVE split_all(_)
split_all(args) ==
    IF args = <<>> THEN <<>> ELSE split(Head(args)) \o split_all(Tail(args))

\* IRBuilder._get_object_args
get_object_args(obj) ==
    IF obj.args = <<>> THEN <<>>
    ELSE IF obj.className \in {T_list, T_float}
    THEN LET parts == split(obj.args[1])
         IN IF Len(parts) > 1 THEN Tail(parts) \o Tail(obj.args)
            ELSE IF Len(obj.args) > 1 THEN Tail(obj.args)
            ELSE <<>>
    ELSE split_all(obj.args)

\* IRBuilder._get_layout
get_layout(obj) == [x |-> obj.position.x, y |-> obj.position.y]

\* IRBuilder._get_comment_text
get_comment_text(obj) == Join(<<" ">>, obj.text)

\* IRBuilder._get_message_text
RECURSIVE get_message_text(_)
get_message_text(targets) ==
    IF targets = <<>> THEN <<>>
    ELSE LET target == Head(targets)
         IN (IF target.address /= None THEN <<target.address>> ELSE <<>>)
            \o SelectSeq(target.messages, LAMBDA msg : msg /= <<>>)
            \o get_message_text(Tail(targets))

\* IRBuilder._build_node_io
build_node_io(reg, obj_type, args) ==
    LET counts == get_io_count(reg, obj_type, args)
        domain == infer_domain(reg, obj_type, args)
    IN [inlets |->
            [i \in 1..counts[1] |->
                [index |-> i - 1,
                 domain |-> IF domain = D_signal /\ i = 1 THEN D_mixed
                            ELSE IF domain = D_signal THEN D_signal
                            ELSE D_control]],
        outlets |->
            [i \in 1..counts[2] |->
                [index |-> i - 1,
                 domain |-> IF domain = D_signal THEN D_signal ELSE D_control]]]

\* d.get(k) of a dict whose values are str: None without the key
dict_get(d, k) == IF k \in DOMAIN d THEN d[k] ELSE None

\* The position in an ordered dict (a list of records with a field name) of
\* the entry of that name; 0 without one.
entry_index(entries, name) ==
    IF \E i \in 1..Len(entries) : entries[i].name = name
    THEN CHOOSE i \in 1..Len(entries) : entries[i].name = name
    ELSE 0

\* The entry of the name, made when missing, gets the instance appended.
add_instance(entries, name, fresh, ir_id) ==
    LET with == IF entry_index(entries, name) = 0
                THEN Append(entries, fresh) ELSE entries
    IN [with EXCEPT ![entry_index(with, name)].instances = Append(@, ir_id)]

S_connection_from == <<"C", "o", "n", "n", "e", "c", "t", "i", "o", "n", " ", "f", "r", "o", "m", " ">>
S_connection_to == <<"C", "o", "n", "n", "e", "c", "t", "i", "o", "n", " ", "t", "o", " ">>
S_outlet == <<"o", "u", "t", "l", "e", "t">>
S_inlet == <<"i", "n", "l", "e", "t">>
S_invalid_only_has == <<" ", "i", "n", "v", "a", "l", "i", "d", " ", "(", "o", "n", "l", "y", " ", "h", "a", "s", " ">>
S_outlets_close == <<" ", "o", "u", "t", "l", "e", "t", "(", "s", ")", ")">>
S_inlets_close == <<" ", "i", "n", "l", "e", "t", "(", "s", ")", ")">>
S_not_in_registry == <<" ", "n", "o", "t", " ", "i", "n", " ", "r", "e", "g", "i", "s", "t", "r", "y">>
S_sep == <<":", ":">>

\* A diagnostic that carries its code in place of the node id
IRDiagnostic_by_code(code, message, node) ==
    [code |-> code, message |-> message, node |-> code]

\* IRDiagnostic
IRDiagnostic(code, message, node) ==
    [code |-> code, message |-> message, node |-> node]

\* The edge tuples (src_id, src_port, dst_id, dst_port) of a canvas
edge_tuples_of(canvas) ==
    [i \in 1..Len(canvas.edges) |->
        <<canvas.edges[i].source.id, canvas.edges[i].source.port,
          canvas.edges[i].sink.id, canvas.edges[i].sink.port>>]

\* node_info_map of _process_canvas: original_id -> (type, args)
RECURSIVE node_info_map_of(_, _)
node_info_map_of(node_data, m) ==
    IF node_data = <<>> THEN m
    ELSE node_info_map_of(Tail(node_data),
             DictPut(m, Head(node_data).original_id,
                     <<Head(node_data).type, Head(node_data).args>>))

\* The IRNode of an object, and what the loop of _process_canvas that creates
\* the IR nodes records for it in the builder, on acc = [b, nodes]
add_node(acc, reg, obj, kind, domain, original_id, ir_id, obj_type, args,
         canvas_id) ==
    LET is_ref == kind = K_abstraction_instance
        is_external == kind = K_object /\ ~is_known(reg, obj_type)
                           /\ Contains(obj_type, "/")
    IN [b |-> [acc.b EXCEPT
                 !.node_id_map = DictPut(@, <<canvas_id, original_id>>, ir_id),
                 !.abstractions =
                     IF is_ref
                     THEN add_instance(@, obj_type,
                              [name |-> obj_type, path |-> None, instances |-> <<>>],
                              ir_id)
                     ELSE @,
                 !.externals =
                     IF is_external
                     THEN add_instance(@, obj_type,
                              [name |-> obj_type, instances |-> <<>>, known |-> FALSE],
                              ir_id)
                     ELSE @,
                 !.diagnostics.warnings =
                     IF is_external
                     THEN Append(@, IRDiagnostic(S_UNKNOWN_OBJECT,
                                                 obj_type \o S_not_in_registry, ir_id))
                     ELSE @,
                 !.symbol_extractor = extract_from_node(@, ir_id, obj_type, args)],
        nodes |-> Append(acc.nodes,
            [id |-> ir_id, canvas |-> canvas_id, kind |-> kind,
             type |-> obj_type, args |-> args, domain |-> domain,
             io |-> build_node_io(reg, obj_type, args),
             layout |-> get_layout(obj),
             meta |-> [original_id |-> original_id],
             ref |-> IF is_ref
                     THEN [name |-> obj_type, path |-> None, resolved |-> FALSE]
                     ELSE [name |-> None, path |-> None, resolved |-> FALSE],
             text |-> IF kind = K_comment THEN get_comment_text(obj) ELSE None])]

\* The type and the arguments the node of an object of the kind gets
node_type_of(obj, kind) ==
    IF kind = K_comment THEN T_comment
    ELSE IF kind = K_message THEN T_message
    ELSE get_object_type(obj)

node_args_of(obj, kind) ==
    IF kind = K_comment THEN <<>>
    ELSE IF kind = K_message THEN get_message_text(obj.targets)
    ELSE get_object_args(obj)

add_node_of_kind(acc, reg, obj, kind, original_id, ir_id, canvas_id) ==
    add_node(acc, reg, obj, kind,
             infer_domain(reg, get_object_type(obj), get_object_args(obj)),
             original_id, ir_id, node_type_of(obj, kind), node_args_of(obj, kind),
             canvas_id)

\* The body of the loop of _process_canvas that creates the IR node of the
\* object at place i of the canvas, on acc = [b, nodes]
create_node(acc, reg, obj, node_data, id_map, i, canvas_id, canvas_path) ==
    add_node_of_kind(acc, reg, obj, classify_node_kind(reg, obj),
                     node_data[i].original_id,
                     IF node_data[i].original_id \in DOMAIN id_map
                     THEN id_map[node_data[i].original_id]
                     ELSE canvas_path \o S_sep \o <<"n">> \o NumStr(i - 1),
                     canvas_id)

RECURSIVE create_nodes(_, _, _, _, _, _, _, _)
create_nodes(acc, reg, objs, node_data, id_map, i, canvas_id, canvas_path) ==
    IF i > Len(objs) THEN acc
    ELSE create_nodes(
             create_node(acc, reg, objs[i], node_data, id_map, i, canvas_id,
                         canvas_path),
             reg, objs, node_data, id_map, i + 1, canvas_id, canvas_path)

\* Every edge a control edge
edge_domain_control(nodes, src_ir_id) == D_control

\* The domain of the first node of the list with the id; control without one.
edge_domain_of(nodes, src_ir_id) ==
    LET found == {i \in 1..Len(nodes) : nodes[i].id = src_ir_id}
    IN IF found = {} THEN D_control
       ELSE nodes[CHOOSE i \in found : \A j \in found : i <= j].domain

\* No outlet index is out of range.
outlet_never_out_of_range(reg, info, src_port) == FALSE

\* The outlet check of _process_canvas for a source object of the registry
outlet_out_of_range(reg, info, src_port) ==
    is_known(reg, info[1]) /\ src_port >= get_io_count(reg, info[1], info[2])[2]

\* The inlet check of _process_canvas for a destination object of the registry
inlet_out_of_range(reg, info, dst_port) ==
    is_known(reg, info[1]) /\ dst_port >= get_io_count(reg, info[1], info[2])[1]

\* No edge of _process_canvas is skipped for its endpoints
endpoint_never_missing(src_ir_id, dst_ir_id) == FALSE

\* The test of _process_canvas that skips an edge: an endpoint id that
\* _node_id_map does not have for the canvas
endpoint_missing(src_ir_id, dst_ir_id) == src_ir_id = None \/ dst_ir_id = None

\* The body of the loop of _process_canvas over the edge tuples, on
\* acc = [b, edges]; nodes are the IR nodes made so far.
create_edge(acc, reg, edge_tuple, node_info_map, nodes, canvas_id) ==
    LET b == acc.b
        src_id == edge_tuple[1]
        src_port == edge_tuple[2]
        dst_id == edge_tuple[3]
        dst_port == edge_tuple[4]
        src_ir_id == dict_get(b.node_id_map, <<canvas_id, src_id>>)
        dst_ir_id == dict_get(b.node_id_map, <<canvas_id, dst_id>>)
        is_src_subpatch == <<canvas_id, src_id>> \in DOMAIN b.subpatch_map
        is_dst_subpatch == <<canvas_id, dst_id>> \in DOMAIN b.subpatch_map
        src_info == node_info_map[src_id]
        dst_info == node_info_map[dst_id]
        check_src == ~is_src_subpatch /\ src_id \in DOMAIN node_info_map
        outlet_count == get_io_count(reg, src_info[1], src_info[2])[2]
        check_dst == ~is_dst_subpatch /\ dst_id \in DOMAIN node_info_map
        inlet_count == get_io_count(reg, dst_info[1], dst_info[2])[1]
        from_node == IF is_src_subpatch
                     THEN b.subpatch_map[<<canvas_id, src_id>>] \o S_sep
                              \o S_outlet \o <<"#">> \o NumStr(src_port)
                     ELSE src_ir_id
        to_node == IF is_dst_subpatch
                   THEN b.subpatch_map[<<canvas_id, dst_id>>] \o S_sep
                            \o S_inlet \o <<"#">> \o NumStr(dst_port)
                   ELSE dst_ir_id
        e == get_edge_id(b)
    IN IF endpoint_missing(src_ir_id, dst_ir_id) THEN acc
       ELSE IF check_src /\ outlet_out_of_range(reg, src_info, src_port)
       THEN [acc EXCEPT !.b.diagnostics.warnings =
                Append(@, IRDiagnostic(S_INVALID_CONNECTION,
                    S_connection_from \o src_info[1] \o <<" ">> \o S_outlet
                        \o <<" ">> \o NumStr(src_port) \o S_invalid_only_has
                        \o NumStr(outlet_count) \o S_outlets_close,
                    src_ir_id))]
       ELSE IF check_dst /\ inlet_out_of_range(reg, dst_info, dst_port)
       THEN [acc EXCEPT !.b.diagnostics.warnings =
                Append(@, IRDiagnostic(S_INVALID_CONNECTION,
                    S_connection_to \o dst_info[1] \o <<" ">> \o S_inlet
                        \o <<" ">> \o NumStr(dst_port) \o S_invalid_only_has
                        \o NumStr(inlet_count) \o S_inlets_close,
                    dst_ir_id))]
       ELSE [b |-> e.b,
             edges |-> Append(acc.edges,
                 [id |-> e.id, kind |-> EK_wire,
                  domain |-> edge_domain_of(nodes, from_node),
                  from_endpoint |->
                      [node |-> from_node,
                       outlet |-> IF is_src_subpatch THEN 0 ELSE src_port],
                  to_endpoint |->
                      [node |-> to_node,
                       inlet |-> IF is_dst_subpatch THEN 0 ELSE dst_port],
                  symbol |-> None, confidence |-> None])]

RECURSIVE create_edges(_, _, _, _, _, _)
create_edges(acc, reg, edge_tuples, node_info_map, nodes, canvas_id) ==
    IF edge_tuples = <<>> THEN acc
    ELSE create_edges(
             create_edge(acc, reg, Head(edge_tuples), node_info_map, nodes,
                         canvas_id),
             reg, Tail(edge_tuples), node_info_map, nodes, canvas_id)

\* The node_data entry of an object
node_data_of(reg, obj) ==
    [original_id |-> obj.id,
     type |-> get_object_type(obj),
     args |-> get_object_args(obj),
     kind |-> classify_node_kind(reg, obj),
     domain |-> infer_domain(reg, get_object_type(obj), get_object_args(obj))]

\* The result of _process_canvas: c1 after the first loop, c2 after the
\* node loop, c3 after the edge loop
canvas_result(c1, c2, c3) ==
    [b |-> c3.b, canvases |-> c1.canvases, nodes |-> c2.nodes,
     edges |-> c3.edges]

\* _process_canvas from the edge loop on
canvas_edges(c1, c2, reg, edge_tuples, canvas_id) ==
    canvas_result(c1, c2,
        create_edges([b |-> c2.b, edges |-> c1.edges], reg, edge_tuples,
                     node_info_map_of(c1.node_data, EmptyDict), c2.nodes,
                     canvas_id))

\* _process_canvas from the node loop on, ids being the result of generate_ids
canvas_nodes(c1, ids, reg, objs, edge_tuples, canvas_id, canvas_path) ==
    canvas_edges(c1,
        create_nodes([b |-> [c1.b EXCEPT !.id_generator = ids.g],
                      nodes |-> c1.nodes],
                     reg, objs, c1.node_data, ids.result, 1, canvas_id,
                     canvas_path),
        reg, edge_tuples, canvas_id)

\* _process_canvas from generate_ids on
canvas_ids(c1, reg, objs, edge_tuples, canvas_id, canvas_path) ==
    canvas_nodes(c1,
        generate_ids(c1.b.id_generator, c1.node_data, edge_tuples, canvas_path),
        reg, objs, edge_tuples, canvas_id, canvas_path)

\* _process_canvas before its first loop: the IRCanvas of the canvas, no
\* nodes, no edges, no node data
new_canvas(b, canvas, canvas_id, parent_id) ==
    [b |-> b,
     canvases |-> <<[id |-> canvas_id,
                     kind |-> IF parent_id = None THEN S_root ELSE K_subpatch,
                     name |-> IF canvas.name /= None THEN canvas.name
                              ELSE canvas_id,
                     parent_canvas |-> parent_id]>>,
     nodes |-> <<>>, edges |-> <<>>, node_data |-> <<>>]

\* What the first loop of _process_canvas adds for a nested canvas: its
\* canvases, nodes and edges, and its path in subpatch_map
add_subpatch(acc, sub, key, sub_path) ==
    [b |-> [sub.b EXCEPT !.subpatch_map = DictPut(@, key, sub_path)],
     canvases |-> acc.canvases \o sub.canvases,
     nodes |-> acc.nodes \o sub.nodes,
     edges |-> acc.edges \o sub.edges,
     node_data |-> acc.node_data]

\* IRBuilder._process_canvas on builder b: [b, canvases, nodes, edges].
\* collect_nodes is its first loop over the objects of the canvas, which
\* processes every nested canvas before the canvas itself gets its ids.
RECURSIVE process_canvas(_, _, _, _, _, _)
RECURSIVE collect_nodes(_, _, _, _, _, _)
collect_subpatch(acc, reg, obj, c, sub_path, canvas_id) ==
    add_subpatch(acc, process_canvas(c.b, reg, obj, c.id, canvas_id, sub_path),
                 <<canvas_id, obj.id>>, sub_path)

collect_node(acc, reg, obj, c, canvas_id, canvas_path) ==
    IF obj.cls = CLS_Canvas
    THEN collect_subpatch(acc, reg, obj, c,
                          generate_canvas_path(c.id, canvas_path), canvas_id)
    ELSE acc

append_node_data(acc, data) == [acc EXCEPT !.node_data = Append(@, data)]

collect_nodes(acc, reg, objs, i, canvas_id, canvas_path) ==
    IF i > Len(objs) THEN acc
    ELSE collect_nodes(
             append_node_data(
                 collect_node(acc, reg, objs[i], get_canvas_id(acc.b),
                              canvas_id, canvas_path),
                 node_data_of(reg, objs[i])),
             reg, objs, i + 1, canvas_id, canvas_path)

process_canvas(b, reg, canvas, canvas_id, parent_id, canvas_path) ==
    canvas_ids(
        collect_nodes(new_canvas(b, canvas, canvas_id, parent_id),
                      reg, canvas.nodes, 1, canvas_id, canvas_path),
        reg, canvas.nodes, edge_tuples_of(canvas), canvas_id, canvas_path)

\* The comments of the text section of build
comments_of(nodes) ==
    LET cs == SelectSeq(nodes, LAMBDA n : n.kind = K_comment /\ n.text /= <<>>)
    IN [i \in 1..Len(cs) |->
           [node |-> cs[i].id, canvas |-> cs[i].canvas, text |-> cs[i].text]]

\* ir_patch.patch.graph_hash = ir_patch.compute_graph_hash()
set_graph_hash(ir) == [ir EXCEPT !.patch.graph_hash = compute_graph_hash(ir)]

\* The IRPatch that build assembles from the result p of _process_canvas on
\* the root canvas
ir_patch_of(root_canvas, p) ==
    [patch |-> [name |-> S_untitled,
                path |-> S_untitled \o <<".", "p", "d">>,
                root_canvas |-> root_canvas,
                graph_hash |-> None],
     canvases |-> p.canvases,
     nodes |-> p.nodes,
     edges |-> p.edges \o generate_symbol_edges(p.b.symbol_extractor),
     symbols |-> get_symbols(p.b.symbol_extractor),
     refs |-> [abstractions |-> p.b.abstractions,
               externals |-> p.b.externals],
     text |-> [comments |-> comments_of(p.nodes)],
     diagnostics |-> [present |-> p.b.diagnostics.warnings /= <<>>,
                      errors |-> <<>>,
                      warnings |-> p.b.diagnostics.warnings]]

build_result(root_canvas, p) ==
    [b |-> p.b, ir |-> set_graph_hash(ir_patch_of(root_canvas, p))]

build_root(c, reg, root) ==
    build_result(c.id, process_canvas(c.b, reg, root, c.id, None, c.id))

\* IRBuilder.build up to the analysis: [b, ir]
build(b, reg, root) == build_root(get_canvas_id(builder_reset(b)), reg, root)

(***************************************************************************)
(* Specifications.                                                         *)
(***************************************************************************)
(***************************************************************************)
(* SpecIds: one NodeIDGenerator instance, used for canvas after canvas.    *)
(***************************************************************************)
T_s == <<"s">>
T_lib_s == <<"l", "i", "b", "/", "s">>
T_inlet == <<"i", "n", "l", "e", "t">>
T_osc == <<"o", "s", "c", "~">>
T_msg == <<"m", "s", "g">>
A_x == <<"x">>
A_xsuffix == <<"x", ":", "c", "o", "n", "t", "r", "o", "l", "#", "1">>
A_4 == <<"4">>
P_c0 == <<"c", "0">>

NodeTemplates ==
    {[type |-> T_s, args |-> <<A_x>>, kind |-> K_object, domain |-> D_control],
     [type |-> T_s, args |-> <<A_xsuffix>>, kind |-> K_object, domain |-> D_unknown],
     [type |-> T_lib_s, args |-> <<A_x>>, kind |-> K_object, domain |-> D_control],
     [type |-> T_inlet, args |-> <<>>, kind |-> K_object, domain |-> D_control],
     [type |-> T_osc, args |-> <<A_4>>, kind |-> K_object, domain |-> D_signal],
     [type |-> T_msg, args |-> <<>>, kind |-> K_message, domain |-> D_control]}

\* Node lists of generate_ids: the objects of a canvas, original ids 0..n-1.
NodeLists ==
    UNION {{[i \in 1..n |->
                [original_id |-> i - 1, type |-> f[i].type, args |-> f[i].args,
                 kind |-> f[i].kind, domain |-> f[i].domain]] :
            f \in [1..n -> NodeTemplates]} : n \in 0..MaxNodes}

\* Edge lists: (src_id, src_port, dst_id, dst_port); an id may name no node.
IdEdges ==
    {<<s, 0, d, 0>> : s \in 0..(MaxNodes - 1), d \in 0..(MaxNodes - 1)}
        \ {<<s, 0, s, 0>> : s \in 0..(MaxNodes - 1)}

IdEdgeLists == UNION {[1..n -> IdEdges] : n \in 0..MaxEdges}

IdsInputs ==
    {[nodes |-> ns, edges |-> es, path |-> P_c0] :
        ns \in NodeLists, es \in IdEdgeLists}

\* Other canvases the same generator instance is used for.
OtherCanvases ==
    {[nodes |-> ns, edges |-> <<>>, path |-> P_c0] :
        ns \in {l \in NodeLists : Len(l) = 1 /\ l[1].domain /= D_control}}

NoCall == [nodes |-> <<>>, edges |-> <<>>, path |-> <<>>]

NotGenerated == [generated |-> FALSE, edges |-> <<>>]

\* The generator before any use.
IdsIdle ==
    /\ idgen = NewGenerator
    /\ idsIn = NoCall
    /\ idsLast = NoCall
    /\ idsOut = EmptyDict
    /\ idsCalls = 0

\* The extractor before any use.
SymIdle ==
    /\ extractor = NewExtractor
    /\ symLog = <<>>
    /\ symEdges = NotGenerated

\* The analyzer before any use.
SccIdle ==
    /\ sccIn = [edges |-> <<>>, order |-> <<>>]
    /\ sccOut = [ran |-> FALSE, sccs |-> <<>>]

\* No IRPatch hashed yet.
HashIdle ==
    /\ hashIn = <<>>
    /\ hashOut = [ran |-> FALSE, first |-> <<>>, second |-> <<>>]

IfaceIdle ==
    /\ ifaceIn = <<>>
    /\ ifaceOut = [ran |-> FALSE, first |-> <<>>, second |-> <<>>]

\* get_io_count not called yet
IoIdle ==
    /\ ioIn = <<>>
    /\ ioOut = [ran |-> FALSE, count |-> <<>>]

\* No patch handed to the enrichment layer
EnrichIdle ==
    /\ enrPatch = <<>>
    /\ enrFiles = <<>>
    /\ enrLast = <<>>

\* No builder constructed for repeated builds
ReuseIdle ==
    /\ reuseBuilder = <<>>
    /\ reuseCalls = <<>>
    /\ reuseOut = <<>>

\* No concurrent builds
ConcIdle ==
    /\ concProcs = <<>>
    /\ concRegistries = <<>>
    /\ concGlobal = 0
    /\ concSched = <<>>

\* No registry made for load_json
LoadIdle ==
    /\ loadRegistry = <<>>
    /\ loadCall = <<>>

\* No chain patch built
ChainIdle ==
    /\ chainIn = <<>>
    /\ chainOut = [built |-> FALSE, ir |-> <<>>, analysis |-> <<>>]

\* No query put to a GraphAnalyzer
WalkIdle ==
    /\ walkIn = <<>>
    /\ walkOut = [ran |-> FALSE, op |-> "", result |-> <<>>]

\* A GlobalSymbolTable nothing was added to
GstIdle ==
    /\ gstTable = [entries |-> EmptyDict, patches |-> {}]
    /\ gstCalls = <<>>

\* SpecIdx has not started: an empty database and no call made
IdxIdle ==
    /\ idxDb = [foreign_keys |-> FALSE, patches |-> {}, nodes |-> {},
                edges |-> {}, symbols |-> {}, symbol_endpoints |-> {},
                comments_fts |-> {}]
    /\ idxCalls = <<>>

\* SpecCache has not started: no cache constructed, no call made
CacheIdle ==
    /\ cacheDir = <<>>
    /\ cacheFiles = <<>>
    /\ cacheCalls = <<>>
    /\ cacheGot = <<>>

\* A new IRBuilder that has built nothing.
NotBuilt == [built |-> FALSE, ir |-> <<>>]

BuildIdle ==
    /\ builder = NewBuilder
    /\ buildIn = <<>>
    /\ buildOut = NotBuilt

IdsInit ==
    /\ idsIn \in IdsInputs
    /\ idgen = NewGenerator
    /\ idsLast = NoCall
    /\ idsOut = EmptyDict
    /\ idsCalls = 0
    /\ SymIdle
    /\ SccIdle
    /\ HashIdle
    /\ BuildIdle
    /\ IfaceIdle
    /\ IoIdle
    /\ EnrichIdle
    /\ ReuseIdle
    /\ ConcIdle
    /\ LoadIdle
    /\ ChainIdle
    /\ WalkIdle
    /\ GstIdle
    /\ IdxIdle
    /\ CacheIdle

\* generator.generate_ids(nodes, edges, canvas_path) for the canvas idsIn
GenerateIds ==
    LET r == generate_ids(idgen, idsIn.nodes, idsIn.edges, idsIn.path)
    IN /\ idsCalls < MaxCalls
       /\ idgen' = r.g
       /\ idsOut' = r.result
       /\ idsLast' = idsIn
       /\ idsCalls' = idsCalls + 1
       /\ UNCHANGED <<idsIn, notIds>>

\* generator.generate_ids for another canvas
GenerateIdsOther ==
    \E c \in OtherCanvases :
        LET r == generate_ids(idgen, c.nodes, c.edges, c.path)
        IN /\ idsCalls < MaxCalls
           /\ idgen' = r.g
           /\ idsOut' = r.result
           /\ idsLast' = c
           /\ idsCalls' = idsCalls + 1
           /\ UNCHANGED <<idsIn, notIds>>

\* generator.reset()
ResetGenerator ==
    /\ idgen' = reset(idgen)
    /\ UNCHANGED <<idsIn, idsLast, idsOut, idsCalls, notIds>>

IdsNext == GenerateIds \/ GenerateIdsOther \/ ResetGenerator

SpecIds == IdsInit /\ [][IdsNext]_vars

\* The permutations of a list.
ListPerms(s) ==
    {[i \in 1..Len(s) |-> s[p[i]]] : p \in Permutations(1..Len(s))}

\* C1: generate_ids is deterministic and history-independent: whatever the
\* instance was used for before, a call returns the mapping that a newly
\* constructed generator returns for the same nodes, edges and canvas path.
C1_IdsHistoryIndependent ==
    idsLast /= NoCall =>
        idsOut = generate_ids(NewGenerator, idsLast.nodes, idsLast.edges,
                              idsLast.path).result

\* A second call on a used instance, for a canvas whose ids need a suffix.
C1_Witness ==
    /\ idsCalls = MaxCalls
    /\ idsLast = idsIn
    /\ Len(idsIn.nodes) = MaxNodes
    /\ \E a \in DOMAIN idsOut : \E b \in DOMAIN idsOut :
           idsOut[b] = idsOut[a] \o <<"#", "1">>

\* C2: the mapping does not depend on the order of the node list or of the
\* edge list: every permutation of both gives the mapping of the latest call.
C2_IdsOrderIndependent ==
    idsLast /= NoCall =>
        \A ns \in ListPerms(idsLast.nodes) : \A es \in ListPerms(idsLast.edges) :
            generate_ids(NewGenerator, ns, es, idsLast.path).result = idsOut

(***************************************************************************)
(* SpecSym: one SymbolExtractor, fed node after node as the builder does   *)
(* (each node of the IR once, node ids distinct), then asked for the       *)
(* symbol edges.                                                           *)
(***************************************************************************)
T_r == <<"r">>
T_throw == <<"t", "h", "r", "o", "w", "~">>
T_array == <<"a", "r", "r", "a", "y">>
A_local == <<"$", "0", "-", "x">>

ExtractCalls ==
    {[type |-> T_s, args |-> <<A_x>>],
     [type |-> T_r, args |-> <<A_x>>],
     [type |-> T_throw, args |-> <<A_x>>],
     [type |-> T_r, args |-> <<A_local>>],
     [type |-> T_array, args |-> <<A_x>>],
     [type |-> T_s, args |-> <<>>]}

\* The id of the k-th node handed to the extractor.
ExtractNodeId(k) == <<"n">> \o NumStr(k)

SymInit ==
    /\ SymIdle
    /\ IdsIdle
    /\ SccIdle
    /\ HashIdle
    /\ BuildIdle
    /\ IfaceIdle
    /\ IoIdle
    /\ EnrichIdle
    /\ ReuseIdle
    /\ ConcIdle
    /\ LoadIdle
    /\ ChainIdle
    /\ WalkIdle
    /\ GstIdle
    /\ IdxIdle
    /\ CacheIdle

\* extractor.extract_from_node(node_id, obj_type, args)
ExtractFromNode ==
    \E c \in ExtractCalls :
        LET node_id == ExtractNodeId(Len(symLog) + 1)
        IN /\ Len(symLog) < MaxExtract
           /\ ~symEdges.generated
           /\ extractor' = extract_from_node(extractor, node_id, c.type, c.args)
           /\ symLog' = Append(symLog,
                  [node |-> node_id, type |-> c.type, args |-> c.args])
           /\ UNCHANGED <<symEdges, notSym>>

\* extractor.generate_symbol_edges()
GenerateSymbolEdges ==
    /\ symEdges' = [generated |-> TRUE,
                    edges |-> generate_symbol_edges(extractor)]
    /\ UNCHANGED <<extractor, symLog, notSym>>

\* extractor.reset()
ResetExtractor ==
    /\ extractor' = extractor_reset(extractor)
    /\ symLog' = <<>>
    /\ symEdges' = NotGenerated
    /\ UNCHANGED notSym

SymNext == ExtractFromNode \/ GenerateSymbolEdges \/ ResetExtractor

SpecSym == SymInit /\ [][SymNext]_vars

\* The number of edges of a list from node a to node b.
EdgeCount(edges, a, b) ==
    Cardinality({i \in 1..Len(edges) :
        edges[i].from_endpoint.node = a /\ edges[i].to_endpoint.node = b})

\* The nodes of a list of endpoints.
EndpointNodes(endpoints) == {endpoints[i].node : i \in 1..Len(endpoints)}

\* The sum of writers * readers over a list of symbols.
RECURSIVE PairTotal(_)
PairTotal(symbols) ==
    IF symbols = <<>> THEN 0
    ELSE Len(Head(symbols).writers) * Len(Head(symbols).readers)
             + PairTotal(Tail(symbols))

\* C8: generate_symbol_edges emits exactly one symbol edge per (writer,
\* reader) pair of every symbol, N*M edges for N writers and M readers, and
\* nothing else: none for a symbol without a writer or without a reader.
C8_SymbolEdgesCrossProduct ==
    symEdges.generated =>
        /\ Len(symEdges.edges) = PairTotal(extractor.symbols)
        /\ \A i \in 1..Len(symEdges.edges) : symEdges.edges[i].kind = EK_symbol
        /\ \A s \in 1..Len(extractor.symbols) :
               LET symbol == extractor.symbols[s]
               IN \A w \in EndpointNodes(symbol.writers) :
                      \A r \in EndpointNodes(symbol.readers) :
                          EdgeCount(symEdges.edges, w, r) = 1
        /\ \A i \in 1..Len(symEdges.edges) :
               \E s \in 1..Len(extractor.symbols) :
                   /\ symEdges.edges[i].from_endpoint.node
                          \in EndpointNodes(extractor.symbols[s].writers)
                   /\ symEdges.edges[i].to_endpoint.node
                          \in EndpointNodes(extractor.symbols[s].readers)

\* Two writers and three readers of one symbol, and its six edges.
C8_Witness ==
    /\ symEdges.generated
    /\ Len(symEdges.edges) = 6
    /\ \E s \in 1..Len(extractor.symbols) :
           /\ Len(extractor.symbols[s].writers) = 2
           /\ Len(extractor.symbols[s].readers) = 3

\* The (kind, resolved name, namespace) triple of a logged call.
CallTriple(c) ==
    <<get_symbol_kind(c.type), parse_namespace(c.args[1]).resolved,
      parse_namespace(c.args[1]).namespace>>

\* A logged call that names a symbol: its type has a kind and a role and it
\* has a first argument.
CallCounts(c) ==
    get_symbol_kind(c.type) /= None /\ get_role(c.type) /= None /\ c.args /= <<>>

\* The nodes of the logged calls of a triple and a role, in call order.
SeenNodes(log, triple, role) ==
    LET hit == SelectSeq(log, LAMBDA c :
                   CallCounts(c) /\ CallTriple(c) = triple /\ get_role(c.type) = role)
    IN [i \in 1..Len(hit) |-> [node |-> hit[i].node]]

SymbolTriple(symbol) == <<symbol.kind, symbol.resolved, symbol.namespace>>

\* C9: after any sequence of extract_from_node calls since the last reset
\* there is at most one Symbol per (kind, resolved name, namespace) triple,
\* every call that names a symbol has the Symbol of its triple, and the
\* writers and the readers of a Symbol are exactly the nodes of the calls of
\* its triple with that role, each once, in first-seen order.
C9_OneSymbolPerTriple ==
    /\ \A i \in 1..Len(extractor.symbols) : \A j \in 1..Len(extractor.symbols) :
           SymbolTriple(extractor.symbols[i]) = SymbolTriple(extractor.symbols[j])
               => i = j
    /\ \A k \in 1..Len(symLog) :
           CallCounts(symLog[k]) =>
               \E i \in 1..Len(extractor.symbols) :
                   SymbolTriple(extractor.symbols[i]) = CallTriple(symLog[k])
    /\ \A i \in 1..Len(extractor.symbols) :
           LET symbol == extractor.symbols[i]
           IN /\ symbol.writers = SeenNodes(symLog, SymbolTriple(symbol), R_writer)
              /\ symbol.readers = SeenNodes(symLog, SymbolTriple(symbol), R_reader)

\* Two symbols of the same name and different kinds, one of them with two
\* writers, after a call that names no symbol.
C9_Witness ==
    /\ Len(symLog) = MaxExtract
    /\ Len(extractor.symbols) = 2
    /\ extractor.symbols[1].resolved = extractor.symbols[2].resolved
    /\ \E i \in 1..2 : Len(extractor.symbols[i].writers) = 2
    /\ \E k \in 1..Len(symLog) : ~CallCounts(symLog[k])

(***************************************************************************)
(* SpecScc: a GraphAnalyzer is made for an edge list and asked for the     *)
(* strongly connected components.                                          *)
(***************************************************************************)
GraphNodeNames == <<"a", "b", "c", "d", "e">>

GraphNodes == {<<GraphNodeNames[i]>> : i \in 1..MaxGraphNodes}

GraphPairs == GraphNodes \X GraphNodes

\* The sets of at most n elements of S.
SubsetsUpTo(S, n) == {X \in SUBSET S : Cardinality(X) <= n}

\* A set of pairs as a list, in a fixed order.
RECURSIVE PairList(_)
PairList(S) ==
    IF S = {} THEN <<>>
    ELSE LET p == CHOOSE p \in S :
                      \A q \in S : p = q \/ StrLess(p[1] \o p[2], q[1] \o q[2])
         IN <<p>> \o PairList(S \ {p})

\* The edge of kind k from p[1] to p[2].
GraphEdge(p, k) ==
    [kind |-> k,
     from_endpoint |-> [node |-> p[1], outlet |-> 0],
     to_endpoint |-> [node |-> p[2], inlet |-> 0]]

\* The edge lists of wire edges with the pairs of sym as symbol edges.
GraphEdgeListsWith(sym) ==
    {[i \in 1..Len(l) |->
          GraphEdge(l[i], IF l[i] \in sym THEN EK_symbol ELSE EK_wire)] :
        l \in {PairList(W \cup sym) : W \in SubsetsUpTo(GraphPairs, MaxWires)}}

\* The edge lists: wire edges, and at most one symbol edge among them.
GraphEdgeLists ==
    UNION {GraphEdgeListsWith(sym) : sym \in {{}} \cup {{p} : p \in GraphPairs}}

\* The orders in which a set can be iterated.
SetOrders(S) ==
    {f \in [1..Cardinality(S) -> S] :
        \A i \in DOMAIN f : \A j \in DOMAIN f : f[i] = f[j] => i = j}

SccInit ==
    /\ SccIdle
    /\ IdsIdle
    /\ SymIdle
    /\ HashIdle
    /\ BuildIdle
    /\ IfaceIdle
    /\ IoIdle
    /\ EnrichIdle
    /\ ReuseIdle
    /\ ConcIdle
    /\ LoadIdle
    /\ ChainIdle
    /\ WalkIdle
    /\ GstIdle
    /\ IdxIdle
    /\ CacheIdle

\* GraphAnalyzer(ir).find_sccs()
FindSccs ==
    /\ ~sccOut.ran
    /\ \E edges \in GraphEdgeLists :
        LET a == NewAnalyzer(edges)
        IN \E order \in SetOrders(all_nodes(a)) :
               /\ sccIn' = [edges |-> edges, order |-> order]
               /\ sccOut' = [ran |-> TRUE, sccs |-> find_sccs(a, order)]
               /\ UNCHANGED notScc

SccNext == FindSccs

SpecScc == SccInit /\ [][SccNext]_vars

\* The wire edges of an edge list, as pairs.
WirePairs(edges) ==
    {<<edges[i].from_endpoint.node, edges[i].to_endpoint.node>> :
        i \in {j \in 1..Len(edges) : edges[j].kind = EK_wire}}

\* The nodes reached from the nodes of R along pairs of W (R included).
RECURSIVE ReachFrom(_, _)
ReachFrom(R, W) ==
    LET more == R \cup {p[2] : p \in {q \in W : q[1] \in R}}
    IN IF more = R THEN R ELSE ReachFrom(more, W)

\* The strongly connected component of node n in the graph of pairs W.
ComponentOf(n, W) == {m \in ReachFrom({n}, W) : n \in ReachFrom({m}, W)}

\* The components of more than one node.
FeedbackComponents(W) ==
    {C \in {ComponentOf(p[1], W) : p \in W} : Cardinality(C) > 1}

SeqSet(s) == {s[i] : i \in 1..Len(s)}

\* C10: for every edge list and every order of the start nodes find_sccs
\* reports exactly the strongly connected components of the wire-only graph
\* that have more than one node, each once and without a repeated node,
\* tagged feedback_cycle and numbered scc1..scck.
C10_SccsAreTheWireCycles ==
    sccOut.ran =>
        LET W == WirePairs(sccIn.edges)
            out == sccOut.sccs
        IN /\ {SeqSet(out[i].nodes) : i \in 1..Len(out)} = FeedbackComponents(W)
           /\ Len(out) = Cardinality(FeedbackComponents(W))
           /\ \A i \in 1..Len(out) :
                  /\ Len(out[i].nodes) = Cardinality(SeqSet(out[i].nodes))
                  /\ out[i].id = S_scc \o NumStr(i)
                  /\ out[i].reason = S_feedback_cycle
           /\ \A i \in 1..Len(out) : \A j \in 1..Len(out) :
                  i /= j => SeqSet(out[i].nodes) \cap SeqSet(out[j].nodes) = {}

\* The ring a -> b -> c -> a of wire edges, reported as one component.
C10_Witness ==
    /\ sccOut.ran
    /\ WirePairs(sccIn.edges) =
           {<<(<<"a">>), (<<"b">>)>>, <<(<<"b">>), (<<"c">>)>>, <<(<<"c">>), (<<"a">>)>>}
    /\ Len(sccOut.sccs) = 1
    /\ SeqSet(sccOut.sccs[1].nodes) = {<<"a">>, <<"b">>, <<"c">>}

(***************************************************************************)
(* SpecHash: compute_graph_hash is taken of two IRPatches.                 *)
(***************************************************************************)
T_plus == <<"+">>
T_dac == <<"d", "a", "c", "~">>
A_y == <<"y">>
A_xy == <<"x", "y">>
N_a == <<"c", "0", ":", ":", "a">>
N_b == <<"c", "0", ":", ":", "b">>

\* An IRNode as far as compute_graph_hash and the layout go.
HashNode(id, type, args, x) ==
    [id |-> id, type |-> type, args |-> args, layout |-> [x |-> x, y |-> 0]]

\* The node lists: the nodes c0::a and c0::b, in either order; the second
\* node sits elsewhere when the order is swapped.
HashNodeLists ==
    {IF swap THEN <<HashNode(N_b, T_dac, <<>>, 1), a>>
             ELSE <<a, HashNode(N_b, T_dac, <<>>, 0)>> :
        a \in {HashNode(N_a, t, args, 0) :
                  t \in {T_osc, T_plus}, args \in {<<A_x>>, <<A_x, A_y>>, <<A_xy>>}},
        swap \in BOOLEAN}

\* The connections an edge can be: wires between the two nodes and one
\* symbol connection.
HashConnections ==
    {[kind |-> EK_wire, from |-> N_a, outlet |-> p[1], to |-> N_b, inlet |-> p[2]] :
        p \in {<<0, 0>>, <<1, 0>>, <<0, 1>>}}
    \cup {[kind |-> EK_wire, from |-> N_b, outlet |-> 0, to |-> N_a, inlet |-> 0],
          [kind |-> EK_symbol, from |-> N_a, outlet |-> 0, to |-> N_b, inlet |-> 0]}

\* The IREdge of connection c at position k of the edge list: ids and domains
\* go by position.
HashEdge(c, k) ==
    [id |-> <<"e">> \o NumStr(k), kind |-> c.kind,
     domain |-> IF k = 1 THEN D_signal ELSE D_control,
     from_endpoint |-> [node |-> c.from, outlet |-> c.outlet],
     to_endpoint |-> [node |-> c.to, inlet |-> c.inlet]]

HashEdgeLists ==
    UNION {{[k \in 1..n |-> HashEdge(cs[k], k)] : cs \in [1..n -> HashConnections]} :
              n \in 0..MaxHashEdges}

\* The IRPatches, as far as compute_graph_hash reads them, with their
\* diagnostics and comments.
HashPatches ==
    {[nodes |-> ns, edges |-> es, diagnostics |-> <<>>, comments |-> <<>>] :
        ns \in HashNodeLists, es \in HashEdgeLists}

\* The first patch of a pair: nodes in the order a, b.
HashFirstPatches == {p \in HashPatches : p.nodes[1].id = N_a}

\* The second patch of a pair: any patch, with a diagnostic and a comment.
HashSecondPatches ==
    {[p EXCEPT !.diagnostics = <<<<"w", "1">>>>, !.comments = <<A_x>>] : p \in HashPatches}

HashInit ==
    /\ HashIdle
    /\ IdsIdle
    /\ SymIdle
    /\ SccIdle
    /\ BuildIdle
    /\ IfaceIdle
    /\ IoIdle
    /\ EnrichIdle
    /\ ReuseIdle
    /\ ConcIdle
    /\ LoadIdle
    /\ ChainIdle
    /\ WalkIdle
    /\ GstIdle
    /\ IdxIdle
    /\ CacheIdle

\* first.compute_graph_hash() and second.compute_graph_hash()
ComputeGraphHash ==
    /\ ~hashOut.ran
    /\ \E p \in HashFirstPatches : \E q \in HashSecondPatches :
        /\ hashIn' = <<p, q>>
        /\ hashOut' = [ran |-> TRUE,
                       first |-> compute_graph_hash(p),
                       second |-> compute_graph_hash(q)]
        /\ UNCHANGED notHash

HashNext == ComputeGraphHash

SpecHash == HashInit /\ [][HashNext]_vars

\* The number of places of the sequence s that hold x.
Occurrences(s, x) == Cardinality({i \in 1..Len(s) : s[i] = x})

\* The (id, type, args) of the nodes of a patch and the
\* (source, outlet, destination, inlet) of its wire edges, each as a list.
NodeFacts(ir) == [i \in 1..Len(ir.nodes) |->
                     <<ir.nodes[i].id, ir.nodes[i].type, ir.nodes[i].args>>]

WireFacts(ir) ==
    LET w == SelectSeq(ir.edges, LAMBDA e : e.kind = EK_wire)
    IN [i \in 1..Len(w) |->
           <<w[i].from_endpoint.node, w[i].from_endpoint.outlet,
             w[i].to_endpoint.node, w[i].to_endpoint.inlet>>]

\* Two lists hold the same things the same number of times.
SameBag(s, t) ==
    /\ Len(s) = Len(t)
    /\ \A i \in 1..Len(s) : Occurrences(s, s[i]) = Occurrences(t, s[i])

SameStructure(p, q) ==
    /\ SameBag(NodeFacts(p), NodeFacts(q))
    /\ SameBag(WireFacts(p), WireFacts(q))

\* C6: two IRPatches with the same nodes (id, type, args) and the same wire
\* edges (source, outlet, destination, inlet) have the same graph hash,
\* whatever the order of their node and edge lists and whatever their
\* layout, comments, diagnostics, edge ids, edge domains and symbol edges.
C6_HashIgnoresOrderAndMetadata ==
    (hashOut.ran /\ SameStructure(hashIn[1], hashIn[2]))
        => hashOut.first = hashOut.second

\* Same structure, but node order, edge order, layout, edge ids, edge
\* domains, diagnostics, comments and a symbol edge all differ.
C6_Witness ==
    /\ hashOut.ran
    /\ SameStructure(hashIn[1], hashIn[2])
    /\ hashOut.first = hashOut.second
    /\ hashIn[1].nodes /= hashIn[2].nodes
    /\ hashIn[1].nodes[1].id = hashIn[2].nodes[2].id
    /\ hashIn[2].nodes[1].layout.x = 1
    /\ Len(hashIn[1].edges) = 2 /\ Len(hashIn[2].edges) = 2
    /\ hashIn[1].edges[1].kind = EK_wire
    /\ hashIn[1].edges[2].kind = EK_symbol
    /\ hashIn[2].edges[1].kind = EK_symbol
    /\ hashIn[2].edges[2].kind = EK_wire
    /\ hashIn[1].edges[1].id /= hashIn[2].edges[2].id
    /\ hashIn[1].edges[1].domain /= hashIn[2].edges[2].domain
    /\ hashIn[1].diagnostics /= hashIn[2].diagnostics
    /\ hashIn[1].comments /= hashIn[2].comments

\* C7: two IRPatches with unique node ids that differ in a node's type or
\* arguments or in a wire edge's source, outlet, destination or inlet have
\* different graph hashes.
C7_HashSeparatesStructures ==
    (hashOut.ran /\ ~SameStructure(hashIn[1], hashIn[2]))
        => hashOut.first /= hashOut.second

\* Two patches that differ only in how one node's arguments are split.
C7_Witness ==
    /\ hashOut.ran
    /\ hashOut.first /= hashOut.second
    /\ hashIn[1].edges = hashIn[2].edges
    /\ hashIn[1].nodes[2] = hashIn[2].nodes[2]
    /\ hashIn[1].nodes[1].type = hashIn[2].nodes[1].type
    /\ hashIn[1].nodes[1].args = <<A_x, A_y>>
    /\ hashIn[2].nodes[1].args = <<A_xy>>

(***************************************************************************)
(* SpecBuild: an IRBuilder builds the IR of a patch, possibly after an     *)
(* earlier build.  The patches are trees of pdpy objects as the parser     *)
(* hands them over: the ids of the objects of a canvas are their places in *)
(* its list.                                                               *)
(***************************************************************************)
T_print == <<"p", "r", "i", "n", "t">>
T_t == <<"t">>
T_outlet == <<"o", "u", "t", "l", "e", "t">>
T_thing == <<"m", "y", "l", "i", "b", "/", "t", "h", "i", "n", "g">>
A_440 == <<"4", "4", "0">>
A_thing_1 == <<"m", "y", "l", "i", "b", "/", "t", "h", "i", "n", "g", " ", "1">>
A_b_b == <<"b", " ", "b">>
N_sub == <<"s", "u", "b">>

\* A pdpy object that is no canvas.
PdObject(cls, className, args, text, targets) ==
    [cls |-> cls, className |-> className, args |-> args, id |-> 0,
     position |-> [x |-> 0, y |-> 0], text |-> text, targets |-> targets,
     name |-> None, nodes |-> <<>>, edges |-> <<>>]

PdObj(className, args) == PdObject(CLS_Obj, className, args, <<>>, <<>>)

\* A pdpy connection
PdEdge(src_id, src_port, dst_id, dst_port) ==
    [source |-> [id |-> src_id, port |-> src_port],
     sink |-> [id |-> dst_id, port |-> dst_port]]

\* The objects of a list get their places as ids and as x positions.
Placed(objs) ==
    [i \in 1..Len(objs) |->
        [objs[i] EXCEPT !.id = i - 1, !.position = [x |-> i - 1, y |-> 0]]]

\* A pdpy Canvas with the objects and connections
PdCanvas(name, objs, edges) ==
    [cls |-> CLS_Canvas, className |-> None, args |-> <<>>, id |-> 0,
     position |-> [x |-> 0, y |-> 0], text |-> <<>>, targets |-> <<>>,
     name |-> name, nodes |-> Placed(objs), edges |-> edges]

\* The objects a canvas can hold that are no canvases.
LeafObjects ==
    {PdObj(T_osc, <<A_440>>),
     PdObj(T_print, <<>>),
     PdObj(T_s, <<A_x>>),
     PdObj(T_t, <<A_b_b>>),
     PdObj(T_thing, <<>>),
     PdObj(T_float, <<A_thing_1>>),
     PdObject(CLS_Msg, None, <<>>, <<>>,
              <<[address |-> None, messages |-> <<A_4>>]>>)}

\* The subpatches: empty; inlet into outlet; an oscillator into a nested
\* subpatch with an inlet.
SubPatches ==
    {PdCanvas(N_sub, <<>>, <<>>),
     PdCanvas(N_sub, <<PdObj(T_inlet, <<>>), PdObj(T_outlet, <<>>)>>,
              <<PdEdge(0, 0, 1, 0)>>),
     PdCanvas(N_sub,
              <<PdObj(T_osc, <<A_440>>),
                PdCanvas(N_sub, <<PdObj(T_inlet, <<>>)>>, <<>>)>>,
              <<PdEdge(0, 0, 1, 0)>>)}

\* An id that names no object of the root canvas.
DanglingId == 9

\* The connections of the root canvas: between its first two objects in
\* both directions, with ports in and out of range, from an object to
\* itself, and to and from an id that names no object.
RootEdges ==
    {PdEdge(0, 0, 1, 0), PdEdge(0, 1, 1, 0), PdEdge(0, 0, 1, 1),
     PdEdge(0, 2, 1, 1), PdEdge(1, 0, 0, 0), PdEdge(0, 0, 0, 0),
     PdEdge(0, 1, DanglingId, 0), PdEdge(DanglingId, 0, 1, 1)}

RootObjectLists ==
    UNION {[1..n -> LeafObjects \cup SubPatches] : n \in 0..MaxObjs}

RootEdgeLists == UNION {[1..n -> RootEdges] : n \in 0..MaxBuildEdges}

\* The root canvases handed to build.
BuildPatches ==
    {PdCanvas(None, objs, edges) :
        objs \in RootObjectLists, edges \in RootEdgeLists}

\* The patch of an earlier build: it leaves ids, symbols, an edge, a
\* subpatch and a diagnostic behind in the builder.
EarlierPatches ==
    {PdCanvas(None,
              <<PdObj(T_s, <<A_x>>), PdObj(T_print, <<>>),
                PdCanvas(N_sub, <<PdObj(T_inlet, <<>>)>>, <<>>)>>,
              <<PdEdge(0, 0, 1, 0), PdEdge(1, 0, 2, 0), PdEdge(0, 0, 2, 0)>>)}

BuildInit ==
    /\ BuildIdle
    /\ IdsIdle
    /\ SymIdle
    /\ SccIdle
    /\ HashIdle
    /\ IfaceIdle
    /\ IoIdle
    /\ EnrichIdle
    /\ ReuseIdle
    /\ ConcIdle
    /\ LoadIdle
    /\ ChainIdle
    /\ WalkIdle
    /\ GstIdle
    /\ IdxIdle
    /\ CacheIdle

\* IRBuilder.build, the analysis of the result iterating all_nodes in some
\* order
Build ==
    /\ ~buildOut.built
    /\ \E root \in BuildPatches :
           \E r \in {build(builder, BuiltinRegistry, root)} :
           \E analysis \in analyze_any_order(r.ir) :
                  /\ builder' = r.b
                  /\ buildIn' = root
                  /\ buildOut' =
                         [built |-> TRUE,
                          ir |-> [canvases |-> r.ir.canvases,
                                  nodes |-> r.ir.nodes,
                                  edges |-> r.ir.edges,
                                  symbols |-> r.ir.symbols,
                                  refs |-> r.ir.refs,
                                  text |-> r.ir.text,
                                  diagnostics |-> r.ir.diagnostics,
                                  patch |-> r.ir.patch,
                                  analysis |-> analysis]]
                  /\ UNCHANGED notBuild

\* An earlier build on the same builder, its result dropped
BuildEarlier ==
    /\ ~buildOut.built
    /\ builder = NewBuilder
    /\ \E root \in EarlierPatches :
           /\ builder' = build(builder, BuiltinRegistry, root).b
           /\ UNCHANGED <<buildIn, buildOut, notBuild>>

BuildNext == Build \/ BuildEarlier

SpecBuild == BuildInit /\ [][BuildNext]_vars

\* The ids of the nodes of the IR built.
IrNodeIds == {buildOut.ir.nodes[i].id : i \in 1..Len(buildOut.ir.nodes)}

\* The wire edges of the IR built.
IrWires == SelectSeq(buildOut.ir.edges, LAMBDA e : e.kind = EK_wire)

\* C3: no two nodes of the IR returned by build have the same id, whichever
\* tiers made the ids, whatever collisions the suffix resolved, across all
\* nested canvases (the original ids being distinct within each canvas).
C3_NodeIdsUnique ==
    buildOut.built =>
        \A i \in 1..Len(buildOut.ir.nodes) : \A j \in 1..Len(buildOut.ir.nodes) :
            buildOut.ir.nodes[i].id = buildOut.ir.nodes[j].id => i = j

\* Three nested canvases, the root holding two nodes whose ids collided: one
\* got the suffix #1.
C3_Witness ==
    /\ buildOut.built
    /\ Len(buildOut.ir.canvases) = 3
    /\ \E i \in 1..Len(buildOut.ir.nodes) : \E j \in 1..Len(buildOut.ir.nodes) :
           /\ buildOut.ir.nodes[i].canvas = buildOut.ir.patch.root_canvas
           /\ buildOut.ir.nodes[j].canvas = buildOut.ir.patch.root_canvas
           /\ buildOut.ir.nodes[j].id = buildOut.ir.nodes[i].id \o <<"#", "1">>

\* C4: both endpoints of every wire edge of the IR returned by build name a
\* node of its node list, edges redirected to <subpatch path>::inlet#k or
\* <subpatch path>::outlet#k included.
C4_WireEndpointsResolve ==
    buildOut.built =>
        \A i \in 1..Len(IrWires) :
            /\ IrWires[i].from_endpoint.node \in IrNodeIds
            /\ IrWires[i].to_endpoint.node \in IrNodeIds

\* The objects and connections of the root canvas handed to build.
RootNames(id) == id \in 0..(Len(buildIn.nodes) - 1)

RootObj(id) == buildIn.nodes[id + 1]

\* A root object whose ports _process_canvas is to validate: no subpatch,
\* and of a type the registry knows.
Validated(id) ==
    /\ RootNames(id)
    /\ RootObj(id).cls /= CLS_Canvas
    /\ is_known(BuiltinRegistry, get_object_type(RootObj(id)))

RootIoCount(id) ==
    get_io_count(BuiltinRegistry, get_object_type(RootObj(id)),
                 get_object_args(RootObj(id)))

\* The id of the IR node made for a root object.
RootIrId(id) ==
    LET n == CHOOSE i \in 1..Len(buildOut.ir.nodes) :
                 /\ buildOut.ir.nodes[i].canvas = buildOut.ir.patch.root_canvas
                 /\ buildOut.ir.nodes[i].meta.original_id = id
    IN buildOut.ir.nodes[n].id

OutletOutOfRange(w) ==
    Validated(w.source.id) /\ w.source.port >= RootIoCount(w.source.id)[2]

InletOutOfRange(w) ==
    Validated(w.sink.id) /\ w.sink.port >= RootIoCount(w.sink.id)[1]

Resolves(w) == RootNames(w.source.id) /\ RootNames(w.sink.id)

InvalidDiagnostics ==
    SelectSeq(buildOut.ir.diagnostics.warnings,
              LAMBDA d : d.code = S_INVALID_CONNECTION)

\* No wire edge of the IR leaves a validated root object by an outlet it
\* has not, or enters one by an inlet it has not.
NoOutOfRangeWireEmitted ==
    \A i \in 1..Len(IrWires) : \A id \in 0..(Len(buildIn.nodes) - 1) :
        Validated(id) =>
            /\ IrWires[i].from_endpoint.node = RootIrId(id)
                   => IrWires[i].from_endpoint.outlet < RootIoCount(id)[2]
            /\ IrWires[i].to_endpoint.node = RootIrId(id)
                   => IrWires[i].to_endpoint.inlet < RootIoCount(id)[1]

\* C5 as stated: every source wire whose outlet index is out of range for
\* its registry-known, non-subpatch source (or whose inlet index is out of
\* range for such a destination) is kept out of the edge list and adds
\* exactly one INVALID_CONNECTION diagnostic, which names the source node
\* when the outlet is out of range.
C5_InvalidWireDiagnosed ==
    buildOut.built =>
        /\ NoOutOfRangeWireEmitted
        /\ Len(InvalidDiagnostics) =
               Cardinality({k \in 1..Len(buildIn.edges) :
                               OutletOutOfRange(buildIn.edges[k])
                               \/ InletOutOfRange(buildIn.edges[k])})
        /\ \A k \in 1..Len(buildIn.edges) :
               OutletOutOfRange(buildIn.edges[k]) =>
                   \E i \in 1..Len(InvalidDiagnostics) :
                       InvalidDiagnostics[i].node =
                           RootIrId(buildIn.edges[k].source.id)

\* C5 amended: the same for the source wires whose two ends both name an
\* object of the canvas; a wire with an end that names no object is dropped
\* without a diagnostic.
C5_ResolvedInvalidWireDiagnosed ==
    buildOut.built =>
        /\ NoOutOfRangeWireEmitted
        /\ Len(InvalidDiagnostics) =
               Cardinality({k \in 1..Len(buildIn.edges) :
                               /\ Resolves(buildIn.edges[k])
                               /\ \/ OutletOutOfRange(buildIn.edges[k])
                                  \/ InletOutOfRange(buildIn.edges[k])})
        /\ \A k \in 1..Len(buildIn.edges) :
               (Resolves(buildIn.edges[k]) /\ OutletOutOfRange(buildIn.edges[k])) =>
                   \E i \in 1..Len(InvalidDiagnostics) :
                       InvalidDiagnostics[i].node =
                           RootIrId(buildIn.edges[k].source.id)

\* A wire from outlet 1 of an oscillator, which has one outlet, is dropped
\* with one diagnostic on the oscillator while the wire from its outlet 0
\* is kept.
C5_Witness ==
    /\ buildOut.built
    /\ Len(buildIn.edges) = 2
    /\ Resolves(buildIn.edges[1]) /\ OutletOutOfRange(buildIn.edges[1])
    /\ Resolves(buildIn.edges[2]) /\ ~OutletOutOfRange(buildIn.edges[2])
    /\ ~InletOutOfRange(buildIn.edges[2])
    /\ Len(InvalidDiagnostics) = 1
    /\ InvalidDiagnostics[1].node = RootIrId(buildIn.edges[1].source.id)
    /\ Len(IrWires) = 1
    /\ IrWires[1].from_endpoint.node = RootIrId(buildIn.edges[2].source.id)

\* The connections of a canvas whose two ids name objects of the canvas.
ResolvedEdges(canvas) ==
    SelectSeq(canvas.edges,
              LAMBDA e : /\ e.source.id \in 0..(Len(canvas.nodes) - 1)
                         /\ e.sink.id \in 0..(Len(canvas.nodes) - 1))

\* The patch built, without the connections of the root canvas that have an
\* id naming no object of the root canvas.
BuildInResolved == [buildIn EXCEPT !.edges = ResolvedEdges(buildIn)]

\* The IRPatch without its analysis
IrBuilt ==
    [patch |-> buildOut.ir.patch, canvases |-> buildOut.ir.canvases,
     nodes |-> buildOut.ir.nodes, edges |-> buildOut.ir.edges,
     symbols |-> buildOut.ir.symbols, refs |-> buildOut.ir.refs,
     text |-> buildOut.ir.text, diagnostics |-> buildOut.ir.diagnostics]

\* C17: connections with a source or destination id that names no object
\* of their canvas leave nothing in the IR: the build returns the edges,
\* the diagnostics and everything else it returns for the patch without
\* them, so the other connections are emitted as they are without them.
C17_DanglingEdgesDropped ==
    (buildOut.built /\ BuildInResolved /= buildIn) =>
        IrBuilt = build(NewBuilder, BuiltinRegistry, BuildInResolved).ir

\* [osc~ 440] and [print] with a connection from the oscillator to an id
\* that names no object, and the connection 0:0 -> 1:0: one wire edge, no
\* diagnostic.
C17_Witness ==
    /\ buildOut.built
    /\ Len(buildIn.nodes) = 2
    /\ buildIn.nodes[1].className = T_osc
    /\ buildIn.nodes[2].className = T_print
    /\ buildIn.edges = <<PdEdge(0, 1, DanglingId, 0), PdEdge(0, 0, 1, 0)>>
    /\ Len(IrWires) = 1
    /\ ~buildOut.ir.diagnostics.present

\* The diagnostics of the IR built, warnings and errors.
IrDiagnostics == buildOut.ir.diagnostics.warnings \o buildOut.ir.diagnostics.errors

\* C18: every diagnostic of the IRPatch that carries a node id
\* (UNKNOWN_OBJECT, INVALID_CONNECTION) names a node of the node list.
C18_DiagnosticsNameNodes ==
    buildOut.built =>
        \A i \in 1..Len(IrDiagnostics) :
            IrDiagnostics[i].node /= None => IrDiagnostics[i].node \in IrNodeIds

\* Two connections out of range, one at its outlet and one at its inlet:
\* two INVALID_CONNECTION diagnostics, on the source node of the one and on
\* the destination node of the other, both nodes of the list.
C18_Witness ==
    /\ buildOut.built
    /\ Len(buildIn.edges) = 2
    /\ Resolves(buildIn.edges[1]) /\ OutletOutOfRange(buildIn.edges[1])
    /\ Resolves(buildIn.edges[2]) /\ ~OutletOutOfRange(buildIn.edges[2])
    /\ InletOutOfRange(buildIn.edges[2])
    /\ buildIn.edges[1].source.id /= buildIn.edges[2].sink.id
    /\ Len(IrDiagnostics) = 2
    /\ IrDiagnostics[1].code = S_INVALID_CONNECTION
    /\ IrDiagnostics[1].node = RootIrId(buildIn.edges[1].source.id)
    /\ IrDiagnostics[2].code = S_INVALID_CONNECTION
    /\ IrDiagnostics[2].node = RootIrId(buildIn.edges[2].sink.id)
    /\ {IrDiagnostics[1].node, IrDiagnostics[2].node} \subseteq IrNodeIds

\* The canvases of the IR built.
IrCanvases == buildOut.ir.canvases

\* The canvas of the list with the id.
CanvasOf(id) == IrCanvases[CHOOSE i \in 1..Len(IrCanvases) : IrCanvases[i].id = id]

\* The canvas n parent links up from the canvas c; a canvas without a
\* parent in the list stays where it is.
RECURSIVE Up(_, _)
Up(c, n) ==
    IF n = 0 \/ c.parent_canvas = None
       \/ ~(\E i \in 1..Len(IrCanvases) : IrCanvases[i].id = c.parent_canvas)
    THEN c
    ELSE Up(CanvasOf(c.parent_canvas), n - 1)

\* C19: exactly one canvas of the IRPatch has kind root and no parent, the
\* canvas ids are pairwise distinct, every other canvas has kind subpatch
\* and a parent in the list, and fewer parent links than there are canvases
\* lead from every canvas to the root.
C19_CanvasesFormATree ==
    buildOut.built =>
        /\ \E i \in 1..Len(IrCanvases) :
               /\ IrCanvases[i].kind = S_root
               /\ IrCanvases[i].parent_canvas = None
               /\ \A j \in 1..Len(IrCanvases) :
                      (IrCanvases[j].kind = S_root
                           \/ IrCanvases[j].parent_canvas = None) => j = i
        /\ \A i \in 1..Len(IrCanvases) : \A j \in 1..Len(IrCanvases) :
               IrCanvases[i].id = IrCanvases[j].id => i = j
        /\ \A i \in 1..Len(IrCanvases) :
               IrCanvases[i].kind /= S_root =>
                   /\ IrCanvases[i].kind = K_subpatch
                   /\ \E j \in 1..Len(IrCanvases) :
                          IrCanvases[j].id = IrCanvases[i].parent_canvas
        /\ \A i \in 1..Len(IrCanvases) :
               Up(IrCanvases[i], Len(IrCanvases) - 1).kind = S_root

\* A root with two subpatches, one of them with a subpatch of its own:
\* four canvases, the innermost two links from the root.
C19_Witness ==
    /\ buildOut.built
    /\ Len(IrCanvases) = 4
    /\ \E i \in 1..Len(IrCanvases) :
           /\ Up(IrCanvases[i], 1).kind /= S_root
           /\ Up(IrCanvases[i], 2).kind = S_root

(***************************************************************************)
(* SpecIface: find_interface_ports on the nodes of an IR, and on the same  *)
(* nodes listed in another order.                                          *)
(***************************************************************************)
MaxMarkers == 3

\* The id of the i-th node of a list.
IfaceId(i) == <<"c", "0", ":", ":", "n", Digits[i + 1]>>

\* An IRNode as far as find_interface_ports reads it.
IfaceNode(id, type, layout) ==
    [id |-> id, type |-> type, layout |-> layout]

IfaceTypes == {T_inlet, T_inlet_tilde, T_outlet, T_outlet_tilde, T_osc}

IfaceXs == {50, 150, 300}

\* The layouts of a node: none, or one at an x of IfaceXs.
IfacePlaces == {None} \cup {[x |-> x, y |-> 0] : x \in IfaceXs}

\* The node lists: up to MaxMarkers nodes with distinct ids.
IfaceNodeLists ==
    UNION {{[i \in 1..n |-> IfaceNode(IfaceId(i), t[i], x[i])] :
               t \in [1..n -> IfaceTypes], x \in [1..n -> IfacePlaces]} :
           n \in 0..MaxMarkers}

IfaceInit ==
    /\ IfaceIdle
    /\ IdsIdle
    /\ SymIdle
    /\ SccIdle
    /\ HashIdle
    /\ BuildIdle
    /\ IoIdle
    /\ EnrichIdle
    /\ ReuseIdle
    /\ ConcIdle
    /\ LoadIdle
    /\ ChainIdle
    /\ WalkIdle
    /\ GstIdle
    /\ IdxIdle
    /\ CacheIdle

\* find_interface_ports on a node list and on a reordering of it
FindInterfacePorts ==
    /\ ~ifaceOut.ran
    /\ \E p \in IfaceNodeLists : \E q \in ListPerms(p) :
        /\ ifaceIn' = <<p, q>>
        /\ ifaceOut' = [ran |-> TRUE,
                        first |-> find_interface_ports(p),
                        second |-> find_interface_ports(q)]
        /\ UNCHANGED notIface

IfaceNext == FindInterfacePorts

SpecIface == IfaceInit /\ [][IfaceNext]_vars

\* The nodes of a list that are markers of the types.
MarkersOf(nodes, types) == SelectSeq(nodes, LAMBDA n : n.type \in types)

\* The ports are the markers, each once, with the indices 0..n-1 in list
\* order, by ascending x (0 without a layout), markers at one x in the order
\* of the node list, with the domain of the type.
PortsIndexByX(ports, nodes, types, signal_type) ==
    LET ms == MarkersOf(nodes, types)
        NodeOf(id) == CHOOSE i \in 1..Len(ms) : ms[i].id = id
    IN /\ Len(ports) = Len(ms)
       /\ {ports[i].node : i \in 1..Len(ports)} = {ms[i].id : i \in 1..Len(ms)}
       /\ \A i \in 1..Len(ports) :
              /\ ports[i].index = i - 1
              /\ ports[i].domain =
                     IF ms[NodeOf(ports[i].node)].type = signal_type
                     THEN D_signal ELSE D_control
       /\ \A i \in 1..Len(ports) : \A j \in 1..Len(ports) :
              i < j =>
                  \/ layout_x(ms[NodeOf(ports[i].node)])
                         < layout_x(ms[NodeOf(ports[j].node)])
                  \/ /\ layout_x(ms[NodeOf(ports[i].node)])
                            = layout_x(ms[NodeOf(ports[j].node)])
                     /\ NodeOf(ports[i].node) < NodeOf(ports[j].node)

InterfaceIndexedByX(interface, nodes) ==
    /\ PortsIndexByX(interface.inlets, nodes, INLET_TYPES, T_inlet_tilde)
    /\ PortsIndexByX(interface.outlets, nodes, OUTLET_TYPES, T_outlet_tilde)

\* The markers of the types sit at pairwise different x.
DistinctPlaces(nodes, types) ==
    LET ms == MarkersOf(nodes, types)
    IN \A i \in 1..Len(ms) : \A j \in 1..Len(ms) :
           layout_x(ms[i]) = layout_x(ms[j]) => i = j

\* C11 as stated: the inlet markers, and the outlet markers, get the
\* indices 0..n-1 by ascending layout x, none missing or repeated, signal
\* for inlet~/outlet~ and control for inlet/outlet, and the interface does
\* not depend on the order the nodes are listed in.
C11_InterfaceIndexByXAnyOrder ==
    ifaceOut.ran =>
        /\ InterfaceIndexedByX(ifaceOut.first, ifaceIn[1])
        /\ InterfaceIndexedByX(ifaceOut.second, ifaceIn[2])
        /\ ifaceOut.first = ifaceOut.second

\* C11 amended: the indices are 0..n-1 by ascending x, markers at one x
\* keeping the order of the node list; the inlet ports do not depend on the
\* list order when the inlet markers sit at pairwise different x, and
\* likewise the outlet ports.
C11_InterfaceIndexByX ==
    ifaceOut.ran =>
        /\ InterfaceIndexedByX(ifaceOut.first, ifaceIn[1])
        /\ InterfaceIndexedByX(ifaceOut.second, ifaceIn[2])
        /\ DistinctPlaces(ifaceIn[1], INLET_TYPES)
               => ifaceOut.first.inlets = ifaceOut.second.inlets
        /\ DistinctPlaces(ifaceIn[1], OUTLET_TYPES)
               => ifaceOut.first.outlets = ifaceOut.second.outlets

\* Inlet markers created at x = 300, 50, 150 get the indices 2, 0, 1, the
\* signal inlet among them a signal port, also when listed in another order.
C11_Witness ==
    /\ ifaceOut.ran
    /\ Len(ifaceIn[1]) = 3
    /\ \A i \in 1..3 : ifaceIn[1][i].type \in INLET_TYPES
    /\ ifaceIn[1][2].type = T_inlet_tilde
    /\ <<layout_x(ifaceIn[1][1]), layout_x(ifaceIn[1][2]),
         layout_x(ifaceIn[1][3])>> = <<300, 50, 150>>
    /\ ifaceIn[2] /= ifaceIn[1]
    /\ ifaceOut.first.inlets =
           <<[node |-> IfaceId(2), index |-> 0, domain |-> D_signal],
             [node |-> IfaceId(3), index |-> 1, domain |-> D_control],
             [node |-> IfaceId(1), index |-> 2, domain |-> D_control]>>
    /\ ifaceOut.second.inlets = ifaceOut.first.inlets

(***************************************************************************)
(* SpecIo: one get_io_count call on the built-in registry.                 *)
(***************************************************************************)
MaxArgs == 3

T_route == <<"r", "o", "u", "t", "e">>
T_select == <<"s", "e", "l", "e", "c", "t">>
T_sel == <<"s", "e", "l">>
T_trigger == <<"t", "r", "i", "g", "g", "e", "r">>
T_pack == <<"p", "a", "c", "k">>
T_writesf == <<"w", "r", "i", "t", "e", "s", "f", "~">>
T_readsf == <<"r", "e", "a", "d", "s", "f", "~">>

\* The object types asked for: types with a rule, aliases of them, a type
\* without a rule and one the registry does not know.
IoTypes ==
    {T_route, T_select, T_sel, T_trigger, T_t, T_pack, T_writesf, T_readsf,
     T_dac, T_osc, T_thing}

\* The argument texts
IoArgTexts == {<<"3">>, <<"0">>, <<"1", "2">>, <<"-", "2">>, <<"x">>}

IoArgLists == UNION {[1..n -> IoArgTexts] : n \in 0..MaxArgs}

IoInit ==
    /\ IoIdle
    /\ IdsIdle
    /\ SymIdle
    /\ SccIdle
    /\ HashIdle
    /\ BuildIdle
    /\ IfaceIdle
    /\ EnrichIdle
    /\ ReuseIdle
    /\ ConcIdle
    /\ LoadIdle
    /\ ChainIdle
    /\ WalkIdle
    /\ GstIdle
    /\ IdxIdle
    /\ CacheIdle

\* registry.get_io_count(obj_type, args)
GetIoCount ==
    /\ ~ioOut.ran
    /\ \E t \in IoTypes : \E args \in IoArgLists :
        /\ ioIn' = [obj_type |-> t, args |-> args]
        /\ ioOut' = [ran |-> TRUE,
                     count |-> get_io_count(BuiltinRegistry, t, args)]
        /\ UNCHANGED notIo

IoNext == GetIoCount

SpecIo == IoInit /\ [][IoNext]_vars

\* The static counts of a type: the lengths of the inlet and outlet lists
\* of its ObjectSpec.
StaticCount(t) ==
    LET spec == registry_get(BuiltinRegistry, t).spec
    IN <<Len(spec.inlets), Len(spec.outlets)>>

\* The value of an integer numeral: digits, or a minus sign and digits.
IsNumeral(a) ==
    \/ isdigit(a)
    \/ Len(a) > 1 /\ a[1] = "-" /\ isdigit(Tail(a))

NumeralValue(a) == IF a[1] = "-" THEN 0 - int_of(Tail(a)) ELSE int_of(a)

\* C12: with the rule `outlets = 1 + argc` (route, select) n arguments give
\* n + 1 outlets and `inlets = arg0` (writesf~) with an integer numeral v as
\* first argument gives max(v, 1) inlets, the other side keeping its static
\* count; an alias (sel, t) gets the counts of its canonical type (select:
\* n + 1 outlets, trigger: max(n, 1) outlets).
C12_OverrideThroughAlias ==
    ioOut.ran =>
        LET n == Len(ioIn.args)
            t == ioIn.obj_type
        IN /\ t \in {T_route, T_select, T_sel}
                  => ioOut.count = <<StaticCount(t)[1], n + 1>>
           /\ t \in {T_trigger, T_t}
                  => ioOut.count = <<StaticCount(t)[1], MaxOf(n, 1)>>
           /\ (t = T_writesf /\ n > 0 /\ IsNumeral(ioIn.args[1]))
                  => ioOut.count =
                         <<MaxOf(NumeralValue(ioIn.args[1]), 1), StaticCount(t)[2]>>
           /\ StaticCount(T_sel) = StaticCount(T_select)
           /\ StaticCount(T_t) = StaticCount(T_trigger)

\* [sel 3 0 x] has 1 inlet and 4 outlets.
C12_Witness ==
    /\ ioOut.ran
    /\ ioIn.obj_type = T_sel
    /\ Len(ioIn.args) = 3
    /\ ioOut.count = <<1, 4>>

(***************************************************************************)
(* enrich.py: EnrichmentCache, EnrichmentManager, enrich_ir.  An           *)
(* EnrichmentData is [based_on_ir_sha, summary], an IREnrichment is        *)
(* [summary]; the file system is a dict from path to the EnrichmentData    *)
(* the file holds.  The operations on a patch return [ir_patch, applied],  *)
(* applied being the EnrichmentData given to apply_enrichment, or None.    *)
(***************************************************************************)
S_enrichment_json == <<".", "e", "n", "r", "i", "c", "h", "m", "e", "n", "t", ".", "j", "s", "o", "n">>

\* os.path.splitext(path)[0]: the path up to the last dot of its last
\* component, the dots the component starts with aside
splitext_base(path) ==
    LET dots == {i \in 2..Len(path) :
                    /\ path[i] = "."
                    /\ \A j \in i..Len(path) : path[j] /= "/"
                    /\ \E j \in 1..(i - 1) :
                           /\ path[j] \notin {".", "/"}
                           /\ \A k \in j..i : path[k] /= "/"}
    IN IF dots = {} THEN path
       ELSE SubSeq(path, 1, (CHOOSE i \in dots : \A j \in dots : j <= i) - 1)

\* EnrichmentCache._get_enrichment_path with cache_dir None
get_enrichment_path(patch_path) == splitext_base(patch_path) \o S_enrichment_json

\* EnrichmentCache.get
cache_get(files, patch_path) == dict_get(files, get_enrichment_path(patch_path))

\* EnrichmentCache.save
cache_save(files, patch_path, enrichment) ==
    DictPut(files, get_enrichment_path(patch_path), enrichment)

\* EnrichmentCache.invalidate
cache_invalidate(files, patch_path) ==
    [f \in DOMAIN files \ {get_enrichment_path(patch_path)} |-> files[f]]

\* EnrichmentCache.is_valid
is_valid(files, patch_path, ir_sha) ==
    LET enrichment == cache_get(files, patch_path)
    IN IF enrichment = None THEN FALSE
       ELSE enrichment.based_on_ir_sha = ir_sha

\* EnrichmentManager.create_enrichment, with the summary filled in
create_enrichment(ir_patch, summary) ==
    [based_on_ir_sha |-> ir_patch.graph_hash, summary |-> summary]

\* EnrichmentManager.apply_enrichment
apply_enrichment(ir_patch, enrichment) ==
    [ir_patch |-> [ir_patch EXCEPT !.enrichment = [summary |-> enrichment.summary]],
     applied |-> enrichment]

\* A call that applies nothing
not_applied(ir_patch) == [ir_patch |-> ir_patch, applied |-> None]

\* EnrichmentManager.load_and_apply
load_and_apply(files, ir_patch, validate) ==
    IF ir_patch.path = <<>> THEN not_applied(ir_patch)
    ELSE IF validate /\ ir_patch.graph_hash /= None
            /\ ~is_valid(files, ir_patch.path, ir_patch.graph_hash)
    THEN not_applied(ir_patch)
    ELSE IF cache_get(files, ir_patch.path) /= None
    THEN apply_enrichment(ir_patch, cache_get(files, ir_patch.path))
    ELSE not_applied(ir_patch)

\* enrich_ir
enrich_ir(files, ir_patch, enrichment_path) ==
    IF enrichment_path /= None /\ enrichment_path \in DOMAIN files
    THEN apply_enrichment(ir_patch, files[enrichment_path])
    ELSE load_and_apply(files, ir_patch, TRUE)

(***************************************************************************)
(* SpecEnrich: a patch, the enrichment files of its directory, and the     *)
(* operations of the enrichment layer in any order.                        *)
(***************************************************************************)
H_1 == <<"h", "1">>
H_2 == <<"h", "2">>
P_patch == <<"a", ".", "p", "d">>
P_explicit == <<"x", ".", "j", "s", "o", "n">>
SUM_1 == <<"s", "y", "n", "t", "h">>
SUM_2 == <<"m", "i", "x", "e", "r">>

\* The IRPatch as the enrichment layer reads it: patch.path,
\* patch.graph_hash and the enrichment slot, empty as build leaves it.
EnrichPatches ==
    {[path |-> p, graph_hash |-> h, enrichment |-> [summary |-> None]] :
        p \in {<<>>, P_patch}, h \in {None, H_1, H_2}}

EnrichmentDatas ==
    {[based_on_ir_sha |-> h, summary |-> t] :
        h \in {None, H_1, H_2}, t \in {SUM_1, SUM_2}}

NoOperation == [op |-> "none", applied |-> None, graph_hash |-> None]

EnrichInit ==
    /\ enrPatch \in EnrichPatches
    /\ enrFiles = EmptyDict
    /\ enrLast = NoOperation
    /\ IdsIdle
    /\ SymIdle
    /\ SccIdle
    /\ HashIdle
    /\ BuildIdle
    /\ IfaceIdle
    /\ IoIdle
    /\ ReuseIdle
    /\ ConcIdle
    /\ LoadIdle
    /\ ChainIdle
    /\ WalkIdle
    /\ GstIdle
    /\ IdxIdle
    /\ CacheIdle

\* manager.save_enrichment(ir_patch, manager.create_enrichment(ir_patch))
\* with a summary
SaveCreatedEnrichment ==
    /\ enrPatch.path /= <<>>
    /\ \E t \in {SUM_1, SUM_2} :
        enrFiles' = cache_save(enrFiles, enrPatch.path,
                               create_enrichment(enrPatch, t))
    /\ enrLast' = [op |-> "save", applied |-> None,
                   graph_hash |-> enrPatch.graph_hash]
    /\ UNCHANGED enrPatch
    /\ UNCHANGED notEnrich

\* An enrichment file is put at the explicit path
WriteExplicitFile ==
    /\ \E e \in EnrichmentDatas : enrFiles' = DictPut(enrFiles, P_explicit, e)
    /\ enrLast' = [op |-> "write", applied |-> None,
                   graph_hash |-> enrPatch.graph_hash]
    /\ UNCHANGED enrPatch
    /\ UNCHANGED notEnrich

\* cache.invalidate(patch_path)
Invalidate ==
    /\ enrPatch.path /= <<>>
    /\ enrFiles' = cache_invalidate(enrFiles, enrPatch.path)
    /\ enrLast' = [op |-> "invalidate", applied |-> None,
                   graph_hash |-> enrPatch.graph_hash]
    /\ UNCHANGED enrPatch
    /\ UNCHANGED notEnrich

\* The patch file is edited and built again: another graph hash, the
\* enrichment slot empty
Rebuild ==
    /\ \E h \in {H_1, H_2} :
        /\ h /= enrPatch.graph_hash
        /\ enrPatch' = [enrPatch EXCEPT !.graph_hash = h,
                                        !.enrichment = [summary |-> None]]
    /\ enrLast' = [op |-> "build", applied |-> None,
                   graph_hash |-> enrPatch'.graph_hash]
    /\ UNCHANGED enrFiles
    /\ UNCHANGED notEnrich

\* manager.load_and_apply(ir_patch, validate)
LoadAndApply ==
    /\ \E validate \in BOOLEAN :
       \E r \in {load_and_apply(enrFiles, enrPatch, validate)} :
        /\ enrPatch' = r.ir_patch
        /\ enrLast' = [op |-> IF validate THEN "load_and_apply"
                              ELSE "load_and_apply_unvalidated",
                       applied |-> r.applied,
                       graph_hash |-> enrPatch.graph_hash]
    /\ UNCHANGED enrFiles
    /\ UNCHANGED notEnrich

\* enrich_ir(ir_patch, enrichment_path)
EnrichIr ==
    /\ \E enrichment_path \in {None, P_explicit} :
       \E r \in {enrich_ir(enrFiles, enrPatch, enrichment_path)} :
        /\ enrPatch' = r.ir_patch
        /\ enrLast' = [op |-> "enrich_ir", applied |-> r.applied,
                       graph_hash |-> enrPatch.graph_hash]
    /\ UNCHANGED enrFiles
    /\ UNCHANGED notEnrich

EnrichNext ==
    \/ SaveCreatedEnrichment
    \/ WriteExplicitFile
    \/ Invalidate
    \/ Rebuild
    \/ LoadAndApply
    \/ EnrichIr

SpecEnrich == EnrichInit /\ [][EnrichNext]_vars

\* C13: load_and_apply with its default validate = True and enrich_ir
\* never apply enrichment data whose based_on_ir_sha differs from the
\* patch's graph_hash.
C13_NoStaleEnrichmentApplied ==
    (enrLast.op \in {"load_and_apply", "enrich_ir"} /\ enrLast.applied /= None)
        => enrLast.applied.based_on_ir_sha = enrLast.graph_hash

(***************************************************************************)
(* SpecReuse: one IRBuilder, build called on it again and again.           *)
(***************************************************************************)
MaxBuilds == 3

\* The patches built: the patch of EarlierPatches; an empty canvas; an
\* oscillator wired to a print; an external and a send; two oscillators
\* alike with a wire out of range; a trigger and a nested subpatch.
ReusePatches ==
    EarlierPatches \cup
    {PdCanvas(None, <<>>, <<>>),
     PdCanvas(None, <<PdObj(T_osc, <<A_440>>), PdObj(T_print, <<>>)>>,
              <<PdEdge(0, 0, 1, 0)>>),
     PdCanvas(None, <<PdObj(T_thing, <<>>), PdObj(T_s, <<A_x>>)>>,
              <<PdEdge(0, 0, 1, 0)>>),
     PdCanvas(None, <<PdObj(T_osc, <<A_440>>), PdObj(T_osc, <<A_440>>)>>,
              <<PdEdge(0, 2, 1, 1), PdEdge(0, 0, 1, 0)>>),
     PdCanvas(None,
              <<PdObj(T_t, <<A_b_b>>),
                PdCanvas(N_sub,
                         <<PdObj(T_osc, <<A_440>>),
                           PdCanvas(N_sub, <<PdObj(T_inlet, <<>>)>>, <<>>)>>,
                         <<PdEdge(0, 0, 1, 0)>>)>>,
              <<PdEdge(0, 1, 1, 0)>>)}

\* IRBuilder(): nothing built yet
ReuseInit ==
    /\ reuseBuilder = NewBuilder
    /\ reuseCalls = <<>>
    /\ reuseOut = <<>>
    /\ IdsIdle
    /\ SymIdle
    /\ SccIdle
    /\ HashIdle
    /\ BuildIdle
    /\ IfaceIdle
    /\ IoIdle
    /\ EnrichIdle
    /\ ConcIdle
    /\ LoadIdle
    /\ ChainIdle
    /\ WalkIdle
    /\ GstIdle
    /\ IdxIdle
    /\ CacheIdle

\* builder.build(root) on the builder as the builds before left it
BuildAgain ==
    /\ Len(reuseCalls) < MaxBuilds
    /\ \E root \in ReusePatches :
       \E r \in {build(reuseBuilder, BuiltinRegistry, root)} :
        /\ reuseBuilder' = r.b
        /\ reuseCalls' = Append(reuseCalls, root)
        /\ reuseOut' = r.ir
    /\ UNCHANGED notReuse

ReuseNext == BuildAgain

SpecReuse == ReuseInit /\ [][ReuseNext]_vars

\* C14: whatever was built on the builder before, a build returns the
\* IRPatch (canvases, nodes, edges, symbols, refs, text, diagnostics, patch
\* info with the graph hash) that a new builder returns for the same input.
C14_BuildAsOnNewBuilder ==
    reuseCalls /= <<>> =>
        reuseOut = build(NewBuilder, BuiltinRegistry,
                         reuseCalls[Len(reuseCalls)]).ir

\* The third build on a builder: after a patch with symbols, a subpatch,
\* edges and a diagnostic, and a patch with an external, a patch of two
\* oscillators is built, with the node ids, the edge id e1 and the one
\* diagnostic of its own.
C14_Witness ==
    /\ Len(reuseCalls) = 3
    /\ reuseCalls[1] \in EarlierPatches
    /\ Len(reuseCalls[2].nodes) = 2
    /\ reuseCalls[2].nodes[1].className = T_thing
    /\ Len(reuseCalls[3].nodes) = 2
    /\ reuseCalls[3].nodes[2].className = T_osc
    /\ Len(reuseOut.nodes) = 2
    /\ Len(reuseOut.canvases) = 1
    /\ reuseOut.canvases[1].id = P_c0
    /\ Len(reuseOut.edges) = 1
    /\ reuseOut.edges[1].id = <<"e", "1">>
    /\ reuseOut.symbols = <<>>
    /\ Len(reuseOut.diagnostics.warnings) + Len(reuseOut.diagnostics.errors) = 1

(***************************************************************************)
(* SpecConc: two IRBuilder instances, each made and then used for one      *)
(* build, their steps interleaved.  The builders are given one registry,   *)
(* or none, and then take the module's through get_registry.  A build      *)
(* keeps its locals (canvas id, the results of the loops) in work and the  *)
(* fields of self in its builder.                                          *)
(***************************************************************************)
MaxSwitches == 3

ConcPatches ==
    EarlierPatches \cup
    {PdCanvas(None, <<PdObj(T_osc, <<A_440>>), PdObj(T_osc, <<A_440>>)>>,
              <<PdEdge(0, 2, 1, 1), PdEdge(0, 0, 1, 0)>>),
     PdCanvas(None,
              <<PdObj(T_thing, <<>>),
                PdCanvas(N_sub, <<PdObj(T_inlet, <<>>), PdObj(T_outlet, <<>>)>>,
                         <<PdEdge(0, 0, 1, 0)>>)>>,
              <<PdEdge(0, 0, 1, 0)>>)}

NoWork == [canvas_id |-> <<>>, c1 |-> <<>>, ids |-> <<>>, nodes |-> <<>>,
           edges |-> <<>>]

\* A build not started: IRBuilder(registry) not yet called; arg is the
\* registry argument, 0 for None.
NewProc(root, arg) ==
    [pc |-> "new", arg |-> arg, root |-> root, registry |-> 0,
     builder |-> <<>>, work |-> NoWork, out |-> <<>>]

ConcInit ==
    /\ \E r1 \in ConcPatches : \E r2 \in ConcPatches : \E arg \in {0, 1} :
        /\ concProcs = <<NewProc(r1, arg), NewProc(r2, arg)>>
        /\ concRegistries = IF arg = 1 THEN <<BuiltinRegistry>> ELSE <<>>
    /\ concGlobal = 0
    /\ concSched = [last |-> 0, switches |-> 0]
    /\ IdsIdle
    /\ SymIdle
    /\ SccIdle
    /\ HashIdle
    /\ BuildIdle
    /\ IfaceIdle
    /\ IoIdle
    /\ EnrichIdle
    /\ ReuseIdle
    /\ LoadIdle
    /\ ChainIdle
    /\ WalkIdle
    /\ GstIdle
    /\ IdxIdle
    /\ CacheIdle

\* The fields of self kept in one place for all builders once the first
\* builder is made
builder_of_class(procs, p) ==
    IF procs[1].builder = <<>> THEN procs[p].builder ELSE procs[1].builder

\* The fields of self of the builder of build p
builder_of(procs, p) == procs[p].builder

\* The registry of the builder of build p
registry_of(p) == concRegistries[concProcs[p].registry]

\* Build p takes a step
Turn(p) ==
    concSched' =
        [last |-> p,
         switches |-> IF concSched.last \in {0, p}
                         \/ concSched.switches = MaxSwitches
                      THEN concSched.switches
                      ELSE concSched.switches + 1]

\* IRBuilder(registry) with a registry
Construct(p) ==
    /\ concProcs[p].pc = "new"
    /\ concProcs[p].arg /= 0
    /\ concProcs' = [concProcs EXCEPT ![p].pc = "constructed",
                                      ![p].registry = concProcs[p].arg,
                                      ![p].builder = NewBuilder]
    /\ Turn(p)
    /\ UNCHANGED <<concRegistries, concGlobal>>
    /\ UNCHANGED notConc

\* get_registry: if _registry is None
GetRegistryTest(p) ==
    /\ concProcs[p].pc = "new"
    /\ concProcs[p].arg = 0
    /\ concProcs' = [concProcs EXCEPT ![p].pc = IF concGlobal = 0 THEN "create"
                                                ELSE "return"]
    /\ Turn(p)
    /\ UNCHANGED <<concRegistries, concGlobal>>
    /\ UNCHANGED notConc

\* get_registry: _registry = ObjectRegistry()
GetRegistryCreate(p) ==
    /\ concProcs[p].pc = "create"
    /\ concRegistries' = Append(concRegistries, BuiltinRegistry)
    /\ concGlobal' = Len(concRegistries) + 1
    /\ concProcs' = [concProcs EXCEPT ![p].pc = "return"]
    /\ Turn(p)
    /\ UNCHANGED notConc

\* get_registry: return _registry, and the rest of IRBuilder.__init__
GetRegistryReturn(p) ==
    /\ concProcs[p].pc = "return"
    /\ concProcs' = [concProcs EXCEPT ![p].pc = "constructed",
                                      ![p].registry = concGlobal,
                                      ![p].builder = NewBuilder]
    /\ Turn(p)
    /\ UNCHANGED <<concRegistries, concGlobal>>
    /\ UNCHANGED notConc

\* build: self._reset()
ConcReset(p) ==
    /\ concProcs[p].pc = "constructed"
    /\ concProcs' = [concProcs EXCEPT
           ![p].pc = "reset",
           ![p].builder = builder_reset(builder_of(concProcs, p))]
    /\ Turn(p)
    /\ UNCHANGED <<concRegistries, concGlobal>>
    /\ UNCHANGED notConc

\* build: root_canvas_id = self._get_canvas_id()
ConcRootId(p) ==
    /\ concProcs[p].pc = "reset"
    /\ \E c \in {get_canvas_id(builder_of(concProcs, p))} :
        concProcs' = [concProcs EXCEPT ![p].pc = "root",
                                       ![p].builder = c.b,
                                       ![p].work.canvas_id = c.id]
    /\ Turn(p)
    /\ UNCHANGED <<concRegistries, concGlobal>>
    /\ UNCHANGED notConc

\* _process_canvas on the root: the first loop, nested canvases included
ConcCollect(p) ==
    /\ concProcs[p].pc = "root"
    /\ \E id \in {concProcs[p].work.canvas_id} :
       \E c1 \in {collect_nodes(
                      new_canvas(builder_of(concProcs, p), concProcs[p].root,
                                 id, None),
                      registry_of(p), concProcs[p].root.nodes, 1, id, id)} :
        concProcs' = [concProcs EXCEPT
            ![p].pc = "collected",
            ![p].builder = c1.b,
            ![p].work.c1 = [canvases |-> c1.canvases, nodes |-> c1.nodes,
                            edges |-> c1.edges, node_data |-> c1.node_data]]
    /\ Turn(p)
    /\ UNCHANGED <<concRegistries, concGlobal>>
    /\ UNCHANGED notConc

\* _process_canvas on the root: generate_ids
ConcIds(p) ==
    /\ concProcs[p].pc = "collected"
    /\ \E ids \in {generate_ids(builder_of(concProcs, p).id_generator,
                                concProcs[p].work.c1.node_data,
                                edge_tuples_of(concProcs[p].root),
                                concProcs[p].work.canvas_id)} :
        concProcs' = [concProcs EXCEPT
            ![p].pc = "ids",
            ![p].builder = [builder_of(concProcs, p) EXCEPT !.id_generator = ids.g],
            ![p].work.ids = ids.result]
    /\ Turn(p)
    /\ UNCHANGED <<concRegistries, concGlobal>>
    /\ UNCHANGED notConc

\* _process_canvas on the root: the node loop
ConcNodes(p) ==
    /\ concProcs[p].pc = "ids"
    /\ \E w \in {concProcs[p].work} :
       \E c2 \in {create_nodes([b |-> builder_of(concProcs, p),
                                nodes |-> w.c1.nodes],
                               registry_of(p), concProcs[p].root.nodes,
                               w.c1.node_data, w.ids, 1, w.canvas_id,
                               w.canvas_id)} :
        concProcs' = [concProcs EXCEPT ![p].pc = "nodes",
                                       ![p].builder = c2.b,
                                       ![p].work.nodes = c2.nodes]
    /\ Turn(p)
    /\ UNCHANGED <<concRegistries, concGlobal>>
    /\ UNCHANGED notConc

\* _process_canvas on the root: the edge loop
ConcEdges(p) ==
    /\ concProcs[p].pc = "nodes"
    /\ \E w \in {concProcs[p].work} :
       \E c3 \in {create_edges([b |-> builder_of(concProcs, p),
                                edges |-> w.c1.edges],
                               registry_of(p),
                               edge_tuples_of(concProcs[p].root),
                               node_info_map_of(w.c1.node_data, EmptyDict),
                               w.nodes, w.canvas_id)} :
        concProcs' = [concProcs EXCEPT ![p].pc = "edges",
                                       ![p].builder = c3.b,
                                       ![p].work.edges = c3.edges]
    /\ Turn(p)
    /\ UNCHANGED <<concRegistries, concGlobal>>
    /\ UNCHANGED notConc

\* build: symbols, symbol edges, refs, the IRPatch and its graph hash
ConcFinish(p) ==
    /\ concProcs[p].pc = "edges"
    /\ \E w \in {concProcs[p].work} :
       \E r \in {build_result(w.canvas_id,
                              [b |-> builder_of(concProcs, p),
                               canvases |-> w.c1.canvases,
                               nodes |-> w.nodes, edges |-> w.edges])} :
        concProcs' = [concProcs EXCEPT ![p].pc = "done", ![p].out = r.ir]
    /\ Turn(p)
    /\ UNCHANGED <<concRegistries, concGlobal>>
    /\ UNCHANGED notConc

ConcNext ==
    \E p \in {1, 2} :
        \/ Construct(p)
        \/ GetRegistryTest(p)
        \/ GetRegistryCreate(p)
        \/ GetRegistryReturn(p)
        \/ ConcReset(p)
        \/ ConcRootId(p)
        \/ ConcCollect(p)
        \/ ConcIds(p)
        \/ ConcNodes(p)
        \/ ConcEdges(p)
        \/ ConcFinish(p)

SpecConc == ConcInit /\ [][ConcNext]_vars

\* C15: however the steps of the two builds interleave, a finished build
\* has returned the IRPatch that the build of its input returns alone on a
\* new builder.
C15_InterleavedBuildAsAlone ==
    \A p \in {1, 2} :
        concProcs[p].pc = "done" =>
            concProcs[p].out =
                build(NewBuilder, BuiltinRegistry, concProcs[p].root).ir

\* Both builds, of different patches, are finished, the turn having changed
\* MaxSwitches times or more, on builders that took the module's registry
\* while both found it missing.
C15_Witness ==
    /\ concProcs[1].pc = "done"
    /\ concProcs[2].pc = "done"
    /\ concProcs[1].root /= concProcs[2].root
    /\ concSched.switches = MaxSwitches
    /\ Len(concRegistries) = 2
    /\ concProcs[1].arg = 0
    /\ Len(concProcs[1].out.nodes) > 0
    /\ Len(concProcs[2].out.nodes) > 0

(***************************************************************************)
(* registry.py: ObjectRegistry.load_json.  The parsed file is              *)
(* [sources, objects, overrides]; a key the file does not have is None.    *)
(* The result is [reg, raised].                                            *)
(***************************************************************************)
Domains == {D_signal, D_control, D_mixed, D_unknown}

SymbolKinds == {SK_send_receive, SK_throw_catch, SK_value, SK_array, SK_table}

\* The ObjectSpec load_json makes of an object entry, or None where the
\* loop body raises: Domain(...) and SymbolKind(...) of a value the enum
\* does not have, obj_data['key'] without the key
loaded_spec(obj_data) ==
    IF (IF obj_data.domain = None THEN D_control ELSE obj_data.domain)
           \notin Domains
    THEN None
    ELSE IF obj_data.symbol_semantics /= None
            /\ obj_data.symbol_semantics.kind \notin SymbolKinds
    THEN None
    ELSE IF obj_data.key = None THEN None
    ELSE ObjectSpec(obj_data.key,
                    IF obj_data.domain = None THEN D_control ELSE obj_data.domain,
                    <<>>, <<>>, obj_data.aliases)

\* load_json: the loop over data['objects']
RECURSIVE load_objects(_, _)
load_objects(reg, objects) ==
    IF objects = <<>> THEN [reg |-> reg, raised |-> FALSE]
    ELSE IF loaded_spec(Head(objects)) = None
    THEN [reg |-> reg, raised |-> TRUE]
    ELSE load_objects(register(reg, loaded_spec(Head(objects))), Tail(objects))

\* load_json: the loop over data['overrides']
RECURSIVE load_overrides(_, _)
load_overrides(reg, overrides) ==
    IF overrides = <<>> THEN [reg |-> reg, raised |-> FALSE]
    ELSE IF Head(overrides).match_key = None
    THEN [reg |-> reg, raised |-> TRUE]
    ELSE load_overrides(
             [reg EXCEPT !.overrides =
                 Append(@, OverrideRule(Head(overrides).match_key,
                                        Head(overrides).rule))],
             Tail(overrides))

\* load_json after the objects loop
load_after_objects(r, data) ==
    IF r.raised THEN r ELSE load_overrides(r.reg, data.overrides)

\* ObjectRegistry.load_json on the parsed file
load_json(reg, data) ==
    load_after_objects(
        load_objects(IF data.sources /= None
                     THEN [reg EXCEPT !.sources = @ \o data.sources]
                     ELSE reg,
                     data.objects),
        data)

(***************************************************************************)
(* SpecLoad: one load_json call on a new ObjectRegistry.                   *)
(***************************************************************************)
MaxEntries == 2

T_foo == <<"f", "o", "o">>
T_bar == <<"b", "a", "r">>
T_b == <<"b">>
S_vendor == <<"v", "e", "n", "d", "o", "r">>
S_writer == <<"w", "r", "i", "t", "e", "r">>
D_audio == <<"a", "u", "d", "i", "o">>
SK_bus == <<"b", "u", "s">>

\* An object entry of the file
ObjEntry(key, domain, aliases, symbol_semantics) ==
    [key |-> key, domain |-> domain, aliases |-> aliases,
     symbol_semantics |-> symbol_semantics]

\* The object entries: two well-formed ones, one without key, one with a
\* domain and one with a symbol kind the enums do not have
ObjEntries ==
    {ObjEntry(T_foo, None, <<>>, None),
     ObjEntry(T_bar, D_signal, <<T_b>>, [kind |-> SK_value, role |-> S_writer]),
     ObjEntry(None, D_control, <<>>, None),
     ObjEntry(T_foo, D_audio, <<>>, None),
     ObjEntry(T_bar, None, <<>>, [kind |-> SK_bus, role |-> S_writer])}

\* The override entries: a well-formed one and one without match.key
OverrideEntries ==
    {[match_key |-> T_foo, rule |-> RULE_outlets_argc],
     [match_key |-> None, rule |-> RULE_outlets_argc]}

LoadFiles ==
    {[sources |-> src, objects |-> objs, overrides |-> ovs] :
        src \in {None, <<S_vendor>>},
        objs \in UNION {[1..n -> ObjEntries] : n \in 0..MaxEntries},
        ovs \in UNION {[1..n -> OverrideEntries] : n \in 0..1}}

NotLoaded == [ran |-> FALSE, data |-> <<>>, before |-> <<>>, raised |-> FALSE]

\* ObjectRegistry()
LoadInit ==
    /\ loadRegistry = BuiltinRegistry
    /\ loadCall = NotLoaded
    /\ IdsIdle
    /\ SymIdle
    /\ SccIdle
    /\ HashIdle
    /\ BuildIdle
    /\ IfaceIdle
    /\ IoIdle
    /\ EnrichIdle
    /\ ReuseIdle
    /\ ConcIdle
    /\ ChainIdle
    /\ WalkIdle
    /\ GstIdle
    /\ IdxIdle
    /\ CacheIdle

\* registry.load_json(filepath)
LoadJson ==
    /\ ~loadCall.ran
    /\ \E data \in LoadFiles : \E r \in {load_json(loadRegistry, data)} :
        /\ loadRegistry' = r.reg
        /\ loadCall' = [ran |-> TRUE, data |-> data, before |-> loadRegistry,
                        raised |-> r.raised]
    /\ UNCHANGED notLoad

LoadNext == LoadJson

SpecLoad == LoadInit /\ [][LoadNext]_vars

\* C16: after a load_json call that raised, objects, aliases, override
\* rules and sources of the registry are what they were before the call.
C16_FailedLoadChangesNothing ==
    (loadCall.ran /\ loadCall.raised) => loadRegistry = loadCall.before

(***************************************************************************)
(* SpecChain: build and analyze on a canvas of signal objects of the       *)
(* registry, each wired to the next.                                       *)
(***************************************************************************)
MaxChain == 3

T_mul == <<"*", "~">>
T_adc == <<"a", "d", "c", "~">>
T_receive_sig == <<"r", "e", "c", "e", "i", "v", "e", "~">>
T_send_sig == <<"s", "e", "n", "d", "~">>
A_0_5 == <<"0", ".", "5">>

\* The signal objects of a chain; none is an inlet or outlet marker.
ChainObjects ==
    {PdObj(T_osc, <<A_440>>), PdObj(T_mul, <<A_0_5>>), PdObj(T_dac, <<>>),
     PdObj(T_adc, <<>>), PdObj(T_receive_sig, <<A_x>>),
     PdObj(T_send_sig, <<A_x>>)}

\* The connection from object i to object i + 1 of a list, out of outlet
\* outs[i] into inlet ins[i]
ChainEdges(n, outs, ins) ==
    [i \in 1..(n - 1) |-> PdEdge(i - 1, outs[i], i, ins[i])]

\* The ports of the connections are in range: the outlet below the outlet
\* count of its object, the inlet below the inlet count of its object.
InRange(objs, edges) ==
    \A i \in 1..Len(edges) :
        /\ edges[i].source.port
               < get_io_count(BuiltinRegistry, objs[i].className, objs[i].args)[2]
        /\ edges[i].sink.port
               < get_io_count(BuiltinRegistry, objs[i + 1].className,
                              objs[i + 1].args)[1]

ChainPatches ==
    UNION {{PdCanvas(None, objs, ChainEdges(n, outs, ins)) :
               objs \in {o \in [1..n -> ChainObjects] :
                            InRange(o, ChainEdges(n, outs, ins))}} :
           n \in 2..MaxChain, outs \in [1..(MaxChain - 1) -> {0, 1}],
           ins \in [1..(MaxChain - 1) -> {0, 1}]}

ChainInit ==
    /\ ChainIdle
    /\ IdsIdle
    /\ SymIdle
    /\ SccIdle
    /\ HashIdle
    /\ BuildIdle
    /\ IfaceIdle
    /\ IoIdle
    /\ EnrichIdle
    /\ ReuseIdle
    /\ ConcIdle
    /\ LoadIdle
    /\ WalkIdle
    /\ GstIdle
    /\ IdxIdle
    /\ CacheIdle

\* IRBuilder().build(patch), the analysis iterating all_nodes in some order
BuildChain ==
    /\ ~chainOut.built
    /\ \E root \in ChainPatches :
       \E r \in {build(NewBuilder, BuiltinRegistry, root)} :
       \E analysis \in analyze_any_order(r.ir) :
        /\ chainIn' = root
        /\ chainOut' = [built |-> TRUE, ir |-> r.ir, analysis |-> analysis]
    /\ UNCHANGED notChain

ChainNext == BuildChain

SpecChain == ChainInit /\ [][ChainNext]_vars

\* The wire edges of the chain built.
ChainWires == SelectSeq(chainOut.ir.edges, LAMBDA e : e.kind = EK_wire)

\* The node of the chain built with the id.
ChainNode(id) ==
    chainOut.ir.nodes[CHOOSE i \in 1..Len(chainOut.ir.nodes) :
                          chainOut.ir.nodes[i].id = id]

\* C20: of a canvas of signal objects of the registry, each wired into the
\* next with ports in range, build makes one node per object and one wire
\* edge per connection, from the node of its source object to the node of
\* its destination object with the ports of the connection, every node and
\* every wire edge of domain signal, the edge's domain that of its source
\* node; the analysis has no SCC and no inlet or outlet port.
C20_SignalChain ==
    chainOut.built =>
        /\ Len(chainOut.ir.nodes) = Len(chainIn.nodes)
        /\ Len(ChainWires) = Len(chainIn.edges)
        /\ \A i \in 1..Len(chainOut.ir.nodes) :
               /\ chainOut.ir.nodes[i].domain = D_signal
               /\ chainOut.ir.nodes[i].type = chainIn.nodes[i].className
        /\ \A i \in 1..Len(ChainWires) :
               /\ ChainWires[i].domain = D_signal
               /\ ChainWires[i].domain
                      = ChainNode(ChainWires[i].from_endpoint.node).domain
               /\ ChainWires[i].from_endpoint.node = chainOut.ir.nodes[i].id
               /\ ChainWires[i].from_endpoint.outlet = chainIn.edges[i].source.port
               /\ ChainWires[i].to_endpoint.node = chainOut.ir.nodes[i + 1].id
               /\ ChainWires[i].to_endpoint.inlet = chainIn.edges[i].sink.port
        /\ ~chainOut.ir.diagnostics.present
        /\ chainOut.analysis.sccs = <<>>
        /\ chainOut.analysis.interfaces = [inlets |-> <<>>, outlets |-> <<>>]

\* [osc~ 440] -> [*~ 0.5] -> [dac~]: three signal nodes, two signal wire
\* edges, no SCC, no interface port.
C20_Witness ==
    /\ chainOut.built
    /\ Len(chainIn.nodes) = 3
    /\ chainIn.nodes[1].className = T_osc
    /\ chainIn.nodes[2].className = T_mul
    /\ chainIn.nodes[2].args = <<A_0_5>>
    /\ chainIn.nodes[3].className = T_dac
    /\ Len(chainOut.ir.nodes) = 3
    /\ \A i \in 1..3 : chainOut.ir.nodes[i].domain = D_signal
    /\ Len(ChainWires) = 2
    /\ \A i \in 1..2 : ChainWires[i].domain = D_signal
    /\ chainOut.analysis.sccs = <<>>
    /\ chainOut.analysis.interfaces.inlets = <<>>
    /\ chainOut.analysis.interfaces.outlets = <<>>

(***************************************************************************)
(* SpecSymDomain: one SymbolExtractor fed writers and readers of every     *)
(* symbol kind, with and without `~` in the symbol name, then asked for    *)
(* the symbol edges.                                                       *)
(***************************************************************************)
MaxDomainNodes == 3

T_catch == <<"c", "a", "t", "c", "h", "~">>
T_tabwrite_sig == <<"t", "a", "b", "w", "r", "i", "t", "e", "~">>
T_tabread_sig == <<"t", "a", "b", "r", "e", "a", "d", "~">>
T_delwrite == <<"d", "e", "l", "w", "r", "i", "t", "e", "~">>
T_delread == <<"d", "e", "l", "r", "e", "a", "d", "~">>
T_value == <<"v", "a", "l", "u", "e">>
A_x_sig == <<"x", "~">>

\* Nodes of every symbol kind: send/receive, throw/catch, array (tabwrite~,
\* tabread~), table (delwrite~, delread~) and value, named x or x~.
DomainCalls ==
    {[type |-> t, args |-> <<a>>] :
        t \in {T_s, T_r, T_throw, T_catch, T_tabwrite_sig, T_tabread_sig,
               T_delwrite, T_delread, T_value},
        a \in {A_x, A_x_sig}}

\* extractor.extract_from_node(node_id, obj_type, args) for such a node
ExtractDomainNode ==
    \E c \in DomainCalls :
        LET node_id == ExtractNodeId(Len(symLog) + 1)
        IN /\ Len(symLog) < MaxDomainNodes
           /\ ~symEdges.generated
           /\ extractor' = extract_from_node(extractor, node_id, c.type, c.args)
           /\ symLog' = Append(symLog,
                  [node |-> node_id, type |-> c.type, args |-> c.args])
           /\ UNCHANGED <<symEdges, notSym>>

\* extractor.generate_symbol_edges(), once
GenerateDomainEdges ==
    /\ ~symEdges.generated
    /\ symEdges' = [generated |-> TRUE,
                    edges |-> generate_symbol_edges(extractor)]
    /\ UNCHANGED <<extractor, symLog, notSym>>

SymDomainNext == ExtractDomainNode \/ GenerateDomainEdges

SpecSymDomain == SymInit /\ [][SymDomainNext]_vars

\* The symbol an edge was made for: the one with its writer and its reader
\* (the node ids handed to the extractor are distinct).
SymbolOfEdge(e) ==
    extractor.symbols[CHOOSE s \in 1..Len(extractor.symbols) :
        /\ e.from_endpoint.node \in EndpointNodes(extractor.symbols[s].writers)
        /\ e.to_endpoint.node \in EndpointNodes(extractor.symbols[s].readers)]

\* C21: every edge of generate_symbol_edges has domain signal if the raw
\* name of its symbol contains `~` or the symbol kind is throw/catch, and
\* domain control otherwise, for symbols of every kind.
C21_SymbolEdgeDomain ==
    symEdges.generated =>
        \A i \in 1..Len(symEdges.edges) :
            LET symbol == SymbolOfEdge(symEdges.edges[i])
            IN symEdges.edges[i].domain =
                   IF Contains(symbol.raw, "~") \/ symbol.kind = SK_throw_catch
                   THEN D_signal ELSE D_control

(***************************************************************************)
(* Objects of a type the registry does not know, with a "/" in the type   *)
(***************************************************************************)
\* A root object made from a pdpy Obj whose type the registry does not know
\* and has a "/" in it.
UnknownNamespaced(id) ==
    /\ RootObj(id).cls = CLS_Obj
    /\ ~is_known(BuiltinRegistry, get_object_type(RootObj(id)))
    /\ Contains(get_object_type(RootObj(id)), "/")

\* The IR has an UNKNOWN_OBJECT diagnostic on the node of the root object.
HasUnknownDiagnostic(id) ==
    \E i \in 1..Len(IrDiagnostics) :
        /\ IrDiagnostics[i].code = S_UNKNOWN_OBJECT
        /\ IrDiagnostics[i].node = RootIrId(id)

\* refs.externals has an entry named by the type of the root object with
\* the node of the object among its instances.
ListedAsExternal(id) ==
    \E j \in 1..Len(buildOut.ir.refs.externals) :
        /\ buildOut.ir.refs.externals[j].name = get_object_type(RootObj(id))
        /\ \E k \in 1..Len(buildOut.ir.refs.externals[j].instances) :
               buildOut.ir.refs.externals[j].instances[k] = RootIrId(id)

\* C22: for every object whose type the registry does not know and has a
\* "/" in it, the IR built has an UNKNOWN_OBJECT diagnostic that names the
\* node of the object, and the node is among the instances of the entry of
\* refs.externals named by the type.
C22_UnknownNamespacedReported ==
    buildOut.built =>
        \A id \in 0..(Len(buildIn.nodes) - 1) :
            UnknownNamespaced(id) =>
                HasUnknownDiagnostic(id) /\ ListedAsExternal(id)

\* [float mylib/thing 1]: the class name float is known, so the node is an
\* object of the type mylib/thing with the diagnostic and the entry of
\* refs.externals; [mylib/thing] beside it has neither.
UnknownDiagnosed ==
    /\ buildOut.built
    /\ Len(buildIn.nodes) = 2
    /\ buildIn.nodes[1].className = T_float
    /\ buildIn.nodes[2].className = T_thing
    /\ UnknownNamespaced(0) /\ HasUnknownDiagnostic(0) /\ ListedAsExternal(0)
    /\ UnknownNamespaced(1) /\ ~HasUnknownDiagnostic(1) /\ ~ListedAsExternal(1)
    /\ Len(IrDiagnostics) = 1
    /\ IrDiagnostics[1].node \in IrNodeIds

(***************************************************************************)
(* analysis.py: the queries of a GraphAnalyzer on the wire graph.          *)
(***************************************************************************)
MaxWalkNodes == 4
MaxWalkWires == 3

\* GraphAnalyzer.get_in_degree
get_in_degree(a, n) == Len(adj_get(a.reverse_adjacency, n))

\* GraphAnalyzer.get_out_degree
get_out_degree(a, n) == Len(adj_get(a.adjacency, n))

\* The while loop of find_linear_chains that follows a chain from current:
\* [chain, visited]
RECURSIVE follow_chain(_, _, _, _)
follow_chain(a, chain, current, visited) ==
    LET successors == adj_get(a.adjacency, current)
    IN IF Len(successors) /= 1 THEN [chain |-> chain, visited |-> visited]
       ELSE IF successors[1] \in visited
       THEN [chain |-> chain, visited |-> visited]
       ELSE IF get_in_degree(a, successors[1]) /= 1
       THEN [chain |-> chain, visited |-> visited]
       ELSE IF get_out_degree(a, successors[1]) /= 1
       THEN [chain |-> Append(chain, successors[1]),
             visited |-> visited \cup {successors[1]}]
       ELSE follow_chain(a, Append(chain, successors[1]), successors[1],
                         visited \cup {successors[1]})

\* What the chain followed from a start adds to st = [chains, visited]
add_chain(st, r) ==
    [chains |-> IF Len(r.chain) >= 2 THEN Append(st.chains, r.chain)
                ELSE st.chains,
     visited |-> r.visited]

\* The loop of find_linear_chains over all_nodes, iterated in the order
RECURSIVE find_linear_chains_loop(_, _, _)
find_linear_chains_loop(a, order, st) ==
    IF order = <<>> THEN st.chains
    ELSE IF \/ Head(order) \in st.visited
            \/ get_out_degree(a, Head(order)) /= 1
            \/ get_in_degree(a, Head(order)) = 1
    THEN find_linear_chains_loop(a, Tail(order), st)
    ELSE find_linear_chains_loop(a, Tail(order),
             add_chain(st, follow_chain(a, <<Head(order)>>, Head(order),
                                        st.visited \cup {Head(order)})))

\* GraphAnalyzer.find_linear_chains without a domain, the set all_nodes
\* being iterated in the given order
find_linear_chains(a, order) ==
    find_linear_chains_loop(a, order, [chains |-> <<>>, visited |-> {}])

(***************************************************************************)
(* SpecWalk: a GraphAnalyzer is made for a list of wire edges and asked    *)
(* for its linear chains, for its topological order, or for the paths to   *)
(* an output or from an input.                                             *)
(***************************************************************************)
WalkNodes == {<<GraphNodeNames[i]>> : i \in 1..MaxWalkNodes}

\* The lists of wire edges, two wires between the same nodes included.
WalkEdgeLists ==
    UNION {[1..n -> {GraphEdge(p, EK_wire) : p \in WalkNodes \X WalkNodes}] :
              n \in 0..MaxWalkWires}

WalkInit ==
    /\ WalkIdle
    /\ IdsIdle
    /\ SymIdle
    /\ SccIdle
    /\ HashIdle
    /\ BuildIdle
    /\ IfaceIdle
    /\ IoIdle
    /\ EnrichIdle
    /\ ReuseIdle
    /\ ConcIdle
    /\ LoadIdle
    /\ ChainIdle
    /\ GstIdle
    /\ IdxIdle
    /\ CacheIdle

\* GraphAnalyzer(ir).find_linear_chains()
FindLinearChains ==
    /\ ~walkOut.ran
    /\ \E edges \in WalkEdgeLists :
           \E order \in SetOrders(all_nodes(NewAnalyzer(edges))) :
               /\ walkIn' = [edges |-> edges, order |-> order]
               /\ walkOut' = [ran |-> TRUE, op |-> "find_linear_chains",
                              result |-> find_linear_chains(NewAnalyzer(edges), order)]
               /\ UNCHANGED notWalk

MaxTraceNodes == 3

\* IRPatch.get_node: the first node of the list with the id, or None
RECURSIVE get_node(_, _)
get_node(nodes, node_id) ==
    IF nodes = <<>> THEN None
    ELSE IF Head(nodes).id = node_id THEN Head(nodes)
    ELSE get_node(Tail(nodes), node_id)

\* node and node.type in types
node_type_in(nodes, node_id, types) ==
    /\ get_node(nodes, node_id) /= None
    /\ get_node(nodes, node_id).type \in types

\* x in path
in_path(path, x) == \E i \in 1..Len(path) : path[i] = x

\* A path left as it was collected.
unreversed(path) == path

\* list(reversed(path))
reversed(path) == [i \in 1..Len(path) |-> path[Len(path) + 1 - i]]

\* dfs of trace_to_output and of trace_from_input, and its loop over the
\* neighbours left: the paths collected.  q = [adjacency, nodes, types,
\* max_depth, backwards]
RECURSIVE dfs(_, _, _, _, _)
RECURSIVE dfs_loop(_, _, _, _, _)
dfs(q, paths, current, path, depth) ==
    IF depth > q.max_depth THEN paths
    ELSE IF node_type_in(q.nodes, current, q.types)
    THEN Append(paths, IF q.backwards THEN reversed(path) ELSE path)
    ELSE dfs_loop(q, paths, adj_get(q.adjacency, current), path, depth)

dfs_loop(q, paths, neighbours, path, depth) ==
    IF neighbours = <<>> THEN paths
    ELSE dfs_loop(q,
                  IF ~in_path(path, Head(neighbours))
                  THEN dfs(q, paths, Head(neighbours),
                           Append(path, Head(neighbours)), depth + 1)
                  ELSE paths,
                  Tail(neighbours), path, depth)

output_types == {T_dac, T_outlet, T_outlet_tilde}

input_types == {T_adc, T_inlet, T_inlet_tilde}

\* The default of max_depth
DefaultMaxDepth == 100

\* GraphAnalyzer.trace_to_output
trace_to_output(a, nodes, node_id, max_depth) ==
    dfs([adjacency |-> a.adjacency, nodes |-> nodes, types |-> output_types,
         max_depth |-> max_depth, backwards |-> FALSE],
        <<>>, node_id, <<node_id>>, 0)

\* GraphAnalyzer.trace_from_input
trace_from_input(a, nodes, node_id, max_depth) ==
    dfs([adjacency |-> a.reverse_adjacency, nodes |-> nodes,
         types |-> input_types, max_depth |-> max_depth, backwards |-> TRUE],
        <<>>, node_id, <<node_id>>, 0)

\* The state of get_topological_order when it starts
NewVisit == [visited |-> {}, temp_marked |-> {}, order |-> <<>>]

\* What visit does after its loop over the successors
visit_done(st, node) ==
    [st EXCEPT !.temp_marked = @ \ {node},
               !.visited = @ \cup {node},
               !.order = Append(@, node)]

\* visit of get_topological_order, and a loop that visits the nodes of a
\* list one after the other
RECURSIVE visit(_, _, _)
RECURSIVE visit_each(_, _, _)
visit(adjacency, st, node) ==
    IF node \in st.visited THEN st
    ELSE IF node \in st.temp_marked THEN st
    ELSE visit_done(visit_each(adjacency,
                               [st EXCEPT !.temp_marked = @ \cup {node}],
                               adj_get(adjacency, node)),
                    node)

visit_each(adjacency, st, nodes) ==
    IF nodes = <<>> THEN st
    ELSE visit_each(adjacency, visit(adjacency, st, Head(nodes)), Tail(nodes))

\* roots of get_topological_order, all_nodes being iterated in the order
roots_of(a, order) ==
    SelectSeq(order, LAMBDA n : n \notin DOMAIN a.reverse_adjacency)

\* The order in which the visits end.
postorder(a, order) ==
    visit_each(a.adjacency,
               visit_each(a.adjacency, NewVisit, roots_of(a, order)),
               order).order

\* GraphAnalyzer.get_topological_order, the set all_nodes being iterated in
\* the given order both times
get_topological_order(a, order) ==
    reversed(visit_each(a.adjacency,
                        visit_each(a.adjacency, NewVisit, roots_of(a, order)),
                        order).order)

TraceNodes == {<<GraphNodeNames[i]>> : i \in 1..MaxTraceNodes}

\* The lists of wire edges of the traces
TraceEdgeLists ==
    UNION {[1..n -> {GraphEdge(p, EK_wire) : p \in TraceNodes \X TraceNodes}] :
              n \in 0..MaxWalkWires}

\* The node lists of an IRPatch: every node of the graph is left out (None)
\* or has one of the types.
TraceNodeLists(types) ==
    {SelectSeq([i \in 1..MaxTraceNodes |->
                   [id |-> <<GraphNodeNames[i]>>, type |-> f[i]]],
               LAMBDA n : n.type /= None) :
        f \in [1..MaxTraceNodes -> types \cup {None}]}

TraceDepths == {1, DefaultMaxDepth}

\* GraphAnalyzer(ir).trace_to_output(node_id, max_depth)
TraceToOutput ==
    /\ ~walkOut.ran
    /\ \E edges \in TraceEdgeLists, nodes \in TraceNodeLists({T_osc, T_dac}),
          node_id \in TraceNodes, max_depth \in TraceDepths :
           /\ walkIn' = [edges |-> edges, nodes |-> nodes, node_id |-> node_id,
                         max_depth |-> max_depth]
           /\ walkOut' = [ran |-> TRUE, op |-> "trace_to_output",
                          result |-> trace_to_output(NewAnalyzer(edges), nodes,
                                                     node_id, max_depth)]
           /\ UNCHANGED notWalk

\* GraphAnalyzer(ir).trace_from_input(node_id, max_depth)
TraceFromInput ==
    /\ ~walkOut.ran
    /\ \E edges \in TraceEdgeLists, nodes \in TraceNodeLists({T_osc, T_adc}),
          node_id \in TraceNodes, max_depth \in TraceDepths :
           /\ walkIn' = [edges |-> edges, nodes |-> nodes, node_id |-> node_id,
                         max_depth |-> max_depth]
           /\ walkOut' = [ran |-> TRUE, op |-> "trace_from_input",
                          result |-> trace_from_input(NewAnalyzer(edges), nodes,
                                                      node_id, max_depth)]
           /\ UNCHANGED notWalk

\* GraphAnalyzer(ir).get_topological_order()
GetTopologicalOrder ==
    /\ ~walkOut.ran
    /\ \E edges \in WalkEdgeLists :
           \E order \in SetOrders(all_nodes(NewAnalyzer(edges))) :
               /\ walkIn' = [edges |-> edges, order |-> order]
               /\ walkOut' = [ran |-> TRUE, op |-> "get_topological_order",
                              result |-> get_topological_order(NewAnalyzer(edges),
                                                               order)]
               /\ UNCHANGED notWalk

WalkNext ==
    \/ FindLinearChains
    \/ GetTopologicalOrder
    \/ TraceToOutput
    \/ TraceFromInput

SpecWalk == WalkInit /\ [][WalkNext]_vars

\* The number of wire edges from u, and to v.
WiresFrom(edges, u) ==
    Cardinality({i \in 1..Len(edges) : edges[i].from_endpoint.node = u})

WiresTo(edges, v) ==
    Cardinality({i \in 1..Len(edges) : edges[i].to_endpoint.node = v})

\* The places where u is followed by v in a chain of the list.
ConsecutiveIn(chains, u, v) ==
    {<<c, k>> \in (1..Len(chains)) \X (1..MaxWalkNodes) :
        /\ k < Len(chains[c])
        /\ chains[c][k] = u
        /\ chains[c][k + 1] = v}

\* C23: find_linear_chains without a domain reports every linear run: each
\* wire edge u -> v with out-degree(u) = 1 and in-degree(v) = 1 joins two
\* consecutive nodes of exactly one chain returned, every chain has at
\* least two nodes, and no node is in two chains.
C23_EveryLinearRunReported ==
    (walkOut.ran /\ walkOut.op = "find_linear_chains") =>
        LET edges == walkIn.edges
            chains == walkOut.result
        IN /\ \A i \in 1..Len(edges) :
                  LET u == edges[i].from_endpoint.node
                      v == edges[i].to_endpoint.node
                  IN (WiresFrom(edges, u) = 1 /\ WiresTo(edges, v) = 1) =>
                         Cardinality(ConsecutiveIn(chains, u, v)) = 1
           /\ \A c \in 1..Len(chains) : Len(chains[c]) >= 2
           /\ \A c \in 1..Len(chains) : \A d \in 1..Len(chains) :
                  c /= d => SeqSet(chains[c]) \cap SeqSet(chains[d]) = {}

\* Every chain returned has at least two nodes, no node is in two chains,
\* and consecutive nodes of a chain are joined by the only wire from the
\* one and the only wire to the other.
ChainsAreLinearRuns ==
    (walkOut.ran /\ walkOut.op = "find_linear_chains") =>
        LET edges == walkIn.edges
            chains == walkOut.result
        IN /\ \A c \in 1..Len(chains) : Len(chains[c]) >= 2
           /\ \A c \in 1..Len(chains) : \A d \in 1..Len(chains) :
                  c /= d => SeqSet(chains[c]) \cap SeqSet(chains[d]) = {}
           /\ \A c \in 1..Len(chains) : \A k \in 1..(Len(chains[c]) - 1) :
                  /\ <<chains[c][k], chains[c][k + 1]>> \in WirePairs(edges)
                  /\ WiresFrom(edges, chains[c][k]) = 1
                  /\ WiresTo(edges, chains[c][k + 1]) = 1

\* a -> b, a -> c, b -> d: the run b -> d behind the fork at a is in no
\* chain, b having one wire in and a having two wires out.
RunBehindForkMissed ==
    /\ walkOut.ran /\ walkOut.op = "find_linear_chains"
    /\ WirePairs(walkIn.edges) =
           {<<(<<"a">>), (<<"b">>)>>, <<(<<"a">>), (<<"c">>)>>, <<(<<"b">>), (<<"d">>)>>}
    /\ walkOut.result = <<>>

\* The sequences of distinct nodes of the traces.
SimpleNodeLists ==
    {p \in UNION {[1..k -> TraceNodes] : k \in 1..MaxTraceNodes} :
        \A i \in 1..Len(p) : \A j \in 1..Len(p) : p[i] = p[j] => i = j}

\* The node of the node list walkIn.nodes with the id has one of the types.
HasType(id, types) ==
    \E i \in 1..Len(walkIn.nodes) :
        walkIn.nodes[i].id = id /\ walkIn.nodes[i].type \in types

\* The simple wire paths from walkIn.node_id that end at the first node of
\* a sink type they reach, of at most max_depth edges.
PathsToOutput ==
    {p \in SimpleNodeLists :
        /\ p[1] = walkIn.node_id
        /\ Len(p) - 1 <= walkIn.max_depth
        /\ \A i \in 1..(Len(p) - 1) :
               /\ <<p[i], p[i + 1]>> \in WirePairs(walkIn.edges)
               /\ ~HasType(p[i], {T_dac, T_outlet, T_outlet_tilde})
        /\ HasType(p[Len(p)], {T_dac, T_outlet, T_outlet_tilde})}

\* The simple wire paths to walkIn.node_id that start at a node of a source
\* type and pass no other, of at most max_depth edges.
PathsFromInput ==
    {p \in SimpleNodeLists :
        /\ p[Len(p)] = walkIn.node_id
        /\ Len(p) - 1 <= walkIn.max_depth
        /\ \A i \in 1..(Len(p) - 1) :
               /\ <<p[i], p[i + 1]>> \in WirePairs(walkIn.edges)
               /\ ~HasType(p[i + 1], {T_adc, T_inlet, T_inlet_tilde})
        /\ HasType(p[1], {T_adc, T_inlet, T_inlet_tilde})}

NoPathTwice ==
    \A i \in 1..Len(walkOut.result) : \A j \in 1..Len(walkOut.result) :
        walkOut.result[i] = walkOut.result[j] => i = j

\* C24: trace_to_output(n) returns the simple wire paths that start at n,
\* end at the first node of a sink type they reach and have at most
\* max_depth edges: every path returned is one, every one is returned, and
\* no path is listed twice; trace_from_input returns in the same way the
\* paths from a node of a source type to n.
C24_TracesListSimplePathsOnce ==
    /\ (walkOut.ran /\ walkOut.op = "trace_to_output") =>
           SeqSet(walkOut.result) = PathsToOutput /\ NoPathTwice
    /\ (walkOut.ran /\ walkOut.op = "trace_from_input") =>
           SeqSet(walkOut.result) = PathsFromInput /\ NoPathTwice

\* The number of wires from u to v.
WireCount(u, v) ==
    Cardinality({i \in 1..Len(walkIn.edges) :
                    /\ walkIn.edges[i].from_endpoint.node = u
                    /\ walkIn.edges[i].to_endpoint.node = v})

\* The number of ways to choose a wire between each two consecutive nodes
\* of a path.
RECURSIVE WaysAlong(_)
WaysAlong(p) ==
    IF Len(p) < 2 THEN 1 ELSE WireCount(p[1], p[2]) * WaysAlong(Tail(p))

\* How often the path is in the list returned.
TimesListed(p) ==
    Cardinality({i \in 1..Len(walkOut.result) : walkOut.result[i] = p})

\* C24 amended: the paths returned are exactly these simple paths, and a
\* path is listed once for every way to choose a wire between each two
\* consecutive nodes of it: more than once where two wires join the same
\* two nodes.
C24_TracesListSimplePaths ==
    /\ (walkOut.ran /\ walkOut.op = "trace_to_output") =>
           /\ SeqSet(walkOut.result) = PathsToOutput
           /\ \A p \in PathsToOutput : TimesListed(p) = WaysAlong(p)
    /\ (walkOut.ran /\ walkOut.op = "trace_from_input") =>
           /\ SeqSet(walkOut.result) = PathsFromInput
           /\ \A p \in PathsFromInput : TimesListed(p) = WaysAlong(p)

\* [osc~] (a) with two wires to [dac~] (b): the path a, b is listed twice.
C24_Witness ==
    /\ walkOut.ran /\ walkOut.op = "trace_to_output"
    /\ Len(walkIn.edges) = 2
    /\ WirePairs(walkIn.edges) = {<<(<<"a">>), (<<"b">>)>>}
    /\ walkIn.node_id = <<"a">>
    /\ walkIn.nodes = <<[id |-> <<"a">>, type |-> T_osc],
                        [id |-> <<"b">>, type |-> T_dac]>>
    /\ walkIn.max_depth = DefaultMaxDepth
    /\ walkOut.result = <<(<<(<<"a">>), (<<"b">>)>>), (<<(<<"a">>), (<<"b">>)>>)>>

\* The place of a node in a list without repetition.
PlaceIn(list, n) == CHOOSE i \in 1..Len(list) : list[i] = n

\* The nodes that are an end of a wire.
WireEnds(W) == {p[1] : p \in W} \cup {p[2] : p \in W}

\* C25: get_topological_order ends on every wire graph, cyclic or not, and
\* returns every node that is an end of a wire exactly once; for every wire
\* u -> v that lies on no cycle, u comes before v in the list returned.
C25_TopologicalOrder ==
    (walkOut.ran /\ walkOut.op = "get_topological_order") =>
        LET W == WirePairs(walkIn.edges)
            out == walkOut.result
        IN /\ SeqSet(out) = WireEnds(W)
           /\ Len(out) = Cardinality(WireEnds(W))
           /\ \A p \in W :
                  p[1] \notin ReachFrom({p[2]}, W) =>
                      PlaceIn(out, p[1]) < PlaceIn(out, p[2])

\* The ring a -> b -> a with the wire b -> c that leaves it, the set being
\* iterated in the order c, b, a: no node is a root, the visits end with c,
\* a, b, and the list returned is b, a, c.
C25_Witness ==
    /\ walkOut.ran /\ walkOut.op = "get_topological_order"
    /\ WirePairs(walkIn.edges) =
           {<<(<<"a">>), (<<"b">>)>>, <<(<<"b">>), (<<"a">>)>>,
            <<(<<"b">>), (<<"c">>)>>}
    /\ walkIn.order = <<(<<"c">>), (<<"b">>), (<<"a">>)>>
    /\ walkOut.result = <<(<<"b">>), (<<"a">>), (<<"c">>)>>

(***************************************************************************)
(* The tier of the id a node gets from generate_ids.                       *)
(***************************************************************************)
HasPrefix(s, p) == Len(s) >= Len(p) /\ SubSeq(s, 1, Len(p)) = p

\* The id is the base id, or the base id with a collision suffix #k.
WithSuffix(id, base) ==
    \/ id = base
    \/ \E k \in 1..MaxNodes : id = base \o <<"#">> \o NumStr(k)

\* canvas_path::type:symbol[:domain]
Tier1Format(id, node, type) ==
    WithSuffix(id, idsLast.path \o <<":", ":">> \o type \o <<":">>
                       \o sanitize_symbol(node.args[1])
                       \o (IF node.domain /= <<>> /\ node.domain /= D_unknown
                           THEN <<":">> \o node.domain ELSE <<>>))

\* canvas_path::type#index
Tier2Format(id, node) ==
    \E k \in 0..(MaxNodes - 1) :
        WithSuffix(id, idsLast.path \o <<":", ":">> \o node.type
                           \o <<"#">> \o NumStr(k))

\* canvas_path::h<hash8>
Tier3Format(id) ==
    \E k \in 0..MaxNodes :
        /\ HasPrefix(id, idsLast.path \o <<":", ":", "h", "[">>)
        /\ id[Len(id) - (IF k = 0 THEN 0 ELSE 2)] = "]"
        /\ k > 0 => SubSeq(id, Len(id) - 1, Len(id)) = <<"#">> \o NumStr(k)

\* canvas_path::n<sequence>
Tier4Format(id) ==
    \E n \in 1..MaxNodes :
        WithSuffix(id, idsLast.path \o <<":", ":", "n">> \o NumStr(n))

\* The node is an end of an edge of the list.
HasEdge(node) ==
    \E i \in 1..Len(idsLast.edges) :
        \/ idsLast.edges[i][1] = node.original_id
        \/ idsLast.edges[i][3] = node.original_id

NamesNode(id) ==
    \E j \in 1..Len(idsLast.nodes) : idsLast.nodes[j].original_id = id

\* The node is an end of an edge whose other end names a node of the list.
HasEdgeToNode(node) ==
    \E i \in 1..Len(idsLast.edges) :
        \/ idsLast.edges[i][1] = node.original_id /\ NamesNode(idsLast.edges[i][3])
        \/ idsLast.edges[i][3] = node.original_id /\ NamesNode(idsLast.edges[i][1])

\* The id has the format of the first tier that applies, tier 1 going by
\* the type given and tier 3 applying to the nodes wired as said.
TierCascade(id, node, type, wired) ==
    IF type \in SYMBOL_ANCHORS /\ node.args /= <<>>
    THEN Tier1Format(id, node, type)
    ELSE IF node.type \in INTERFACE_OBJECTS THEN Tier2Format(id, node)
    ELSE IF wired THEN Tier3Format(id)
    ELSE Tier4Format(id)

\* C26 as stated: generate_ids gives each node the id of the first tier
\* that applies: tier 1 if its type is a named-channel type and it has an
\* argument, else tier 2 if it is an inlet/outlet marker, else tier 3 if
\* and only if the node has at least one edge, else tier 4; only a
\* collision suffix follows the format.
C26_TierCascadeByEdges ==
    idsLast /= NoCall =>
        \A i \in 1..Len(idsLast.nodes) :
            TierCascade(idsOut[idsLast.nodes[i].original_id], idsLast.nodes[i],
                        idsLast.nodes[i].type, HasEdge(idsLast.nodes[i]))

\* C26 amended: tier 1 goes by the part of the type after its last "/" and
\* puts that part into the id; tier 3 if and only if the node has at least
\* one edge whose other end is a node of the list, so a node whose edges
\* all lead to ids that name no node gets its id from tier 4.
C26_TierCascade ==
    idsLast /= NoCall =>
        \A i \in 1..Len(idsLast.nodes) :
            TierCascade(idsOut[idsLast.nodes[i].original_id], idsLast.nodes[i],
                        SplitLast(idsLast.nodes[i].type, "/"),
                        HasEdgeToNode(idsLast.nodes[i]))

\* [s x], [inlet] and [osc~ 4] with one edge from the oscillator to the
\* inlet: tier 1, tier 2 and tier 3.
ThreeTiers ==
    /\ idsLast /= NoCall
    /\ Len(idsLast.nodes) = 3
    /\ idsLast.nodes[1].type = T_s /\ idsLast.nodes[1].args = <<A_x>>
    /\ idsLast.nodes[2].type = T_inlet
    /\ idsLast.nodes[3].type = T_osc
    /\ idsLast.edges = <<(<<2, 0, 1, 0>>)>>
    /\ idsOut[0] = <<"c", "0", ":", ":", "s", ":", "x", ":", "c", "o", "n", "t", "r", "o", "l">>
    /\ idsOut[1] = <<"c", "0", ":", ":", "i", "n", "l", "e", "t", "#", "0">>
    /\ Tier3Format(idsOut[2])

\* [lib/s x] and [osc~ 4] with one edge from the oscillator to the id 2,
\* which names no node: tier 1 under the type s and tier 4.
C26_Witness ==
    /\ idsLast /= NoCall
    /\ Len(idsLast.nodes) = 2
    /\ idsLast.nodes[1].type = T_lib_s /\ idsLast.nodes[1].args = <<A_x>>
    /\ idsLast.nodes[2].type = T_osc
    /\ idsLast.edges = <<(<<1, 0, 2, 0>>)>>
    /\ HasEdge(idsLast.nodes[2]) /\ ~HasEdgeToNode(idsLast.nodes[2])
    /\ idsOut[0] = <<"c", "0", ":", ":", "s", ":", "x", ":", "c", "o", "n", "t", "r", "o", "l">>
    /\ idsOut[1] = <<"c", "0", ":", ":", "n", "1">>

(***************************************************************************)
(* symbols.py: GlobalSymbolTable.  The table is the record of its fields   *)
(* [entries, patches]; an entry is [kind, resolved, namespace,             *)
(* instance_local, endpoints].                                             *)
(***************************************************************************)
MaxAdds == 2
MaxSymbolsAdded == 2

\* A key without the kind.
make_key_without_kind(kind, resolved, namespace) ==
    resolved \o <<":">> \o namespace

\* GlobalSymbolTable._make_key
make_key(kind, resolved, namespace) ==
    kind \o <<":">> \o resolved \o <<":">> \o namespace

\* GlobalSymbolTable.__init__
NewTable == [entries |-> EmptyDict, patches |-> {}]

\* The domain add_symbol gives the endpoints of a symbol
endpoint_domain(symbol) ==
    IF symbol.kind = SK_send_receive /\ Contains(symbol.raw, "~")
    THEN D_signal
    ELSE IF symbol.kind = SK_throw_catch THEN D_signal
    ELSE D_control

\* node_id_map[node_id] if node_id_map and node_id in node_id_map
mapped_node_id(node_id_map, node_id) ==
    IF node_id \in DOMAIN node_id_map THEN node_id_map[node_id] ELSE node_id

\* The SymbolEndpointInfo of the endpoints of a symbol in the role
endpoint_infos(endpoints, symbol, patch_path, node_id_map, role) ==
    [i \in 1..Len(endpoints) |->
        [node_id |-> mapped_node_id(node_id_map, endpoints[i].node),
         patch_path |-> patch_path,
         role |-> role,
         domain |-> endpoint_domain(symbol),
         port |-> endpoints[i].port]]

\* self._entries after the test 'if key not in self._entries'
with_entry(entries, key, symbol) ==
    IF key \in DOMAIN entries THEN entries
    ELSE DictPut(entries, key,
                 [kind |-> symbol.kind, resolved |-> symbol.resolved,
                  namespace |-> symbol.namespace,
                  instance_local |-> symbol.instance_local,
                  endpoints |-> <<>>])

\* The entries with the endpoints of the symbol appended to the entry of
\* the key
with_endpoints(entries, key, symbol, patch_path, node_id_map) ==
    [entries EXCEPT ![key].endpoints =
        @ \o endpoint_infos(symbol.writers, symbol, patch_path, node_id_map,
                            R_writer)
          \o endpoint_infos(symbol.readers, symbol, patch_path, node_id_map,
                            R_reader)]

\* GlobalSymbolTable.add_symbol
add_symbol(t, symbol, patch_path, node_id_map) ==
    [entries |->
         with_endpoints(
             with_entry(t.entries,
                        make_key(symbol.kind, symbol.resolved, symbol.namespace),
                        symbol),
             make_key(symbol.kind, symbol.resolved, symbol.namespace),
             symbol, patch_path, node_id_map),
     patches |-> t.patches \cup {patch_path}]

\* GlobalSymbolTable.add_patch_symbols
RECURSIVE add_patch_symbols(_, _, _, _)
add_patch_symbols(t, symbols, patch_path, node_id_map) ==
    IF symbols = <<>> THEN t
    ELSE add_patch_symbols(add_symbol(t, Head(symbols), patch_path, node_id_map),
                           Tail(symbols), patch_path, node_id_map)

(***************************************************************************)
(* SpecGst: the symbol lists of patches are added to one GlobalSymbolTable.*)
(***************************************************************************)
A_x_global == <<"x", ":", "g", "l", "o", "b", "a", "l">>
N_n1 == <<"c", "0", ":", ":", "n", "1">>
N_n2 == <<"c", "0", ":", ":", "n", "2">>
N_g1 == <<"a", ".", "p", "d", "/", "c", "0", ":", ":", "n", "1">>
P_a_pd == <<"a", ".", "p", "d">>
P_b_pd == <<"b", ".", "p", "d">>

\* An IRSymbol
TableSymbol(kind, raw, resolved, namespace, writers, readers) ==
    [kind |-> kind, raw |-> raw, resolved |-> resolved,
     namespace |-> namespace, instance_local |-> namespace = NS_instance,
     writers |-> writers, readers |-> readers]

\* The symbols of the patches: x written as a send symbol, x read as a send
\* symbol, x written as a value, and x:global read and written in an
\* instance.
TableSymbols ==
    {TableSymbol(SK_send_receive, A_x, A_x, NS_global,
                 <<[node |-> N_n1, port |-> 0]>>, <<>>),
     TableSymbol(SK_send_receive, A_x_sig, A_x_sig, NS_global,
                 <<>>, <<[node |-> N_n2, port |-> 0]>>),
     TableSymbol(SK_send_receive, A_x, A_x, NS_global,
                 <<>>, <<[node |-> N_n2, port |-> 0]>>),
     TableSymbol(SK_value, A_x, A_x, NS_global,
                 <<[node |-> N_n1, port |-> 0]>>, <<>>),
     TableSymbol(SK_value, A_x_global, A_x_global, NS_instance,
                 <<[node |-> N_n2, port |-> 0]>>,
                 <<[node |-> N_n1, port |-> 0]>>)}

TableSymbolLists ==
    UNION {[1..n -> TableSymbols] : n \in 0..MaxSymbolsAdded}

\* node_id_map: None, or a map of the node n1
NodeIdMaps == {EmptyDict, DictPut(EmptyDict, N_n1, N_g1)}

GstInit ==
    /\ GstIdle
    /\ IdsIdle
    /\ SymIdle
    /\ SccIdle
    /\ HashIdle
    /\ BuildIdle
    /\ IfaceIdle
    /\ IoIdle
    /\ EnrichIdle
    /\ ReuseIdle
    /\ ConcIdle
    /\ LoadIdle
    /\ ChainIdle
    /\ WalkIdle
    /\ IdxIdle
    /\ CacheIdle

\* table.add_patch_symbols(symbols, patch_path, node_id_map)
AddPatchSymbols ==
    /\ Len(gstCalls) < MaxAdds
    /\ \E symbols \in TableSymbolLists, patch_path \in {P_a_pd, P_b_pd},
          node_id_map \in NodeIdMaps :
           /\ gstTable' = add_patch_symbols(gstTable, symbols, patch_path,
                                            node_id_map)
           /\ gstCalls' = Append(gstCalls,
                                 [symbols |-> symbols, patch_path |-> patch_path,
                                  node_id_map |-> node_id_map])
           /\ UNCHANGED notGst

GstNext == AddPatchSymbols

SpecGst == GstInit /\ [][GstNext]_vars

\* The table after the calls of a list on a new table.
RECURSIVE TableAfter(_, _)
TableAfter(t, calls) ==
    IF calls = <<>> THEN t
    ELSE TableAfter(add_patch_symbols(t, Head(calls).symbols,
                                      Head(calls).patch_path,
                                      Head(calls).node_id_map),
                    Tail(calls))

Triple(x) == <<x.kind, x.resolved, x.namespace>>

\* The triples of the symbols added by the calls.
TriplesAdded(calls) ==
    UNION {{Triple(calls[c].symbols[i]) : i \in 1..Len(calls[c].symbols)} :
              c \in 1..Len(calls)}

\* How often (patch, node, role) is among the endpoints.
TimesAmong(endpoints, e) ==
    Cardinality({i \in 1..Len(endpoints) :
                    <<endpoints[i].patch_path, endpoints[i].node_id,
                      endpoints[i].role>> = e})

\* The entries of a table by their triples, each with its multiset of
\* (patch, node, role) endpoints.
EntriesOf(t) ==
    {[triple |-> Triple(t.entries[k]),
      endpoints |->
          [e \in {<<t.entries[k].endpoints[i].patch_path,
                    t.entries[k].endpoints[i].node_id,
                    t.entries[k].endpoints[i].role>> :
                      i \in 1..Len(t.entries[k].endpoints)} |->
              TimesAmong(t.entries[k].endpoints, e)]] :
        k \in DOMAIN t.entries}

\* C27: after any sequence of add_patch_symbols calls the table holds
\* exactly one entry per distinct (kind, resolved name, namespace) of the
\* symbols added, and the set of entries and the multiset of (patch, node,
\* role) endpoints of each entry are the same for every order in which the
\* symbol lists of the patches were added.
C27_OneEntryPerTripleAnyOrder ==
    /\ {Triple(gstTable.entries[k]) : k \in DOMAIN gstTable.entries}
           = TriplesAdded(gstCalls)
    /\ \A k \in DOMAIN gstTable.entries : \A l \in DOMAIN gstTable.entries :
           Triple(gstTable.entries[k]) = Triple(gstTable.entries[l]) => k = l
    /\ \A calls \in ListPerms(gstCalls) :
           EntriesOf(TableAfter(NewTable, calls)) = EntriesOf(gstTable)

\* The send symbol x written in a.pd and read in b.pd, added with the
\* value x: two entries, the one of the send symbol with an endpoint of
\* each patch, whichever patch is added first.
C27_Witness ==
    /\ Len(gstCalls) = 2
    /\ gstCalls[1].patch_path = P_b_pd
    /\ gstCalls[2].patch_path = P_a_pd
    /\ Len(gstCalls[1].symbols) = 1 /\ Len(gstCalls[2].symbols) = 2
    /\ Triple(gstCalls[1].symbols[1]) = <<SK_send_receive, A_x, NS_global>>
    /\ gstCalls[1].symbols[1].readers /= <<>>
    /\ Triple(gstCalls[2].symbols[1]) = <<SK_value, A_x, NS_global>>
    /\ Triple(gstCalls[2].symbols[2]) = <<SK_send_receive, A_x, NS_global>>
    /\ gstCalls[2].symbols[2].writers /= <<>>
    /\ Cardinality(DOMAIN gstTable.entries) = 2
    /\ Len(gstTable.entries[make_key(SK_send_receive, A_x, NS_global)].endpoints) = 2
    /\ gstTable.patches = {P_a_pd, P_b_pd}

(***************************************************************************)
(* SpecMarkers: a canvas of inlet/outlet markers placed anywhere is built, *)
(* as the root or as a subpatch an oscillator is wired into.               *)
(***************************************************************************)
MaxMarkerObjs == 3

\* A canvas of objects without arguments of the types, the i-th at xs[i]
MarkerCanvas(name, types, xs) ==
    [cls |-> CLS_Canvas, className |-> None, args |-> <<>>, id |-> 0,
     position |-> [x |-> 0, y |-> 0], text |-> <<>>, targets |-> <<>>,
     name |-> name,
     nodes |-> [i \in 1..Len(types) |->
                   [PdObj(types[i], <<>>) EXCEPT
                       !.id = i - 1, !.position = [x |-> xs[i], y |-> 0]]],
     edges |-> <<>>]

MarkerCanvases(name) ==
    UNION {{MarkerCanvas(name, types, xs) :
               types \in [1..n -> {T_inlet, T_inlet_tilde, T_outlet}],
               xs \in [1..n -> 0..(MaxMarkerObjs - 1)]} :
           n \in 1..MaxMarkerObjs}

\* The canvas of markers as the root, or as the subpatch of a root with an
\* oscillator wired into its inlet 0 or 1.
MarkerPatches ==
    MarkerCanvases(None)
        \cup {PdCanvas(None, <<PdObj(T_osc, <<A_440>>), sub>>,
                       <<PdEdge(0, 0, 1, port)>>) :
                 sub \in {c \in MarkerCanvases(N_sub) : Len(c.nodes) = 2},
                 port \in {0, 1}}

\* IRBuilder().build(patch) of a canvas of markers
BuildMarkers ==
    /\ ~chainOut.built
    /\ \E root \in MarkerPatches :
       \E r \in {build(NewBuilder, BuiltinRegistry, root)} :
       \E analysis \in analyze_any_order(r.ir) :
        /\ chainIn' = root
        /\ chainOut' = [built |-> TRUE, ir |-> r.ir, analysis |-> analysis]
    /\ UNCHANGED notChain

MarkerNext == BuildMarkers

SpecMarkers == ChainInit /\ [][MarkerNext]_vars

\* The index at the end of a tier 2 id canvas_path::type#k
IdIndex(id) ==
    CHOOSE k \in 0..(MaxMarkerObjs - 1) :
        SubSeq(id, Len(id) - 1, Len(id)) = <<"#">> \o NumStr(k)

\* The interface ports of the analysis, inlets and outlets.
InterfacePorts ==
    chainOut.analysis.interfaces.inlets \o chainOut.analysis.interfaces.outlets

\* The index find_interface_ports gives the marker node with the id
PortIndex(id) ==
    InterfacePorts[CHOOSE i \in 1..Len(InterfacePorts) :
                       InterfacePorts[i].node = id].index

\* C28: for every inlet, inlet~, outlet or outlet~ marker node of the IR
\* built, the index k at the end of its tier 2 id canvas_path::type#k, the
\* port number by which edges into or out of its subpatch are redirected,
\* is the index find_interface_ports gives the marker.
C28_MarkerIdIndexIsInterfaceIndex ==
    chainOut.built =>
        \A i \in 1..Len(chainOut.ir.nodes) :
            chainOut.ir.nodes[i].type \in INTERFACE_OBJECTS =>
                IdIndex(chainOut.ir.nodes[i].id) = PortIndex(chainOut.ir.nodes[i].id)

\* A subpatch with an [inlet] at x = 2 and then an [inlet] at x = 0, and an
\* oscillator wired into inlet 0 of the subpatch: the wire ends at the node
\* c0/c1::inlet#0, which has the interface index 1.
RedirectedToOtherInlet ==
    /\ chainOut.built
    /\ Len(chainIn.nodes) = 2
    /\ chainIn.edges = <<PdEdge(0, 0, 1, 0)>>
    /\ Len(chainIn.nodes[2].nodes) = 2
    /\ chainIn.nodes[2].nodes[1].className = T_inlet
    /\ chainIn.nodes[2].nodes[1].position.x = 2
    /\ chainIn.nodes[2].nodes[2].className = T_inlet
    /\ chainIn.nodes[2].nodes[2].position.x = 0
    /\ \E e \in 1..Len(chainOut.ir.edges) :
           /\ chainOut.ir.edges[e].to_endpoint.node = <<"c", "0", "/", "c", "1", ":", ":", "i", "n", "l", "e", "t", "#", "0">>
           /\ PortIndex(chainOut.ir.edges[e].to_endpoint.node) = 1

(***************************************************************************)
(* index.py: IRIndex, the SQLite index of IR patches.  A table is the set  *)
(* of its rows, each row a record that carries its rowid in the field id.  *)
(***************************************************************************)
MaxIndexCalls == 3

A_hello == <<"h", "e", "l", "l", "o">>
E_e1 == <<"e", "1">>
IR_VERSION == <<"0", ".", "1">>

\* The rowid SQLite gives a new row of a table with an INTEGER PRIMARY KEY
\* and no AUTOINCREMENT: one more than the largest rowid in the table
next_rowid(rows) ==
    IF rows = {} THEN 1
    ELSE (CHOOSE i \in {r.id : r \in rows} :
              \A r \in rows : r.id <= i) + 1

\* DELETE FROM <table> WHERE patch_id = ?
delete_patch_rows(rows, patch_id) == {r \in rows : r.patch_id # patch_id}

\* DELETE FROM patches WHERE id = ?, without the referential actions
delete_patch_row_only(db, patch_id) ==
    [db EXCEPT !.patches = {r \in @ : r.id # patch_id}]

\* DELETE FROM patches WHERE id = ?  The ON DELETE CASCADE clauses of nodes,
\* edges and symbol_endpoints act only while the connection enforces
\* foreign keys; _get_conn never sets the pragma, so the library's
\* compile-time default decides.
delete_patch_row(db, patch_id) ==
    IF db.foreign_keys
    THEN [db EXCEPT
            !.patches = {r \in @ : r.id # patch_id},
            !.nodes = delete_patch_rows(@, patch_id),
            !.edges = delete_patch_rows(@, patch_id),
            !.symbol_endpoints = delete_patch_rows(@, patch_id)]
    ELSE delete_patch_row_only(db, patch_id)

\* INSERT OR REPLACE INTO patches: the new row takes the next rowid, then
\* the row that holds the same path (UNIQUE) is deleted.  Gives the
\* database and cursor.lastrowid.
insert_or_replace_patch(db, ir_patch, now) ==
    LET patch_id == next_rowid(db.patches)
        old == {r \in db.patches : r.path = ir_patch.path}
        cleared == IF old = {} THEN db
                   ELSE delete_patch_row(db, (CHOOSE r \in old : TRUE).id)
    IN  [db |-> [cleared EXCEPT !.patches = @ \cup
                    {[id |-> patch_id, path |-> ir_patch.path,
                      sha256 |-> ir_patch.sha256,
                      graph_hash |-> ir_patch.graph_hash,
                      ir_version |-> ir_patch.ir_version,
                      parsed_at |-> now]}],
         lastrowid |-> patch_id]

\* json.dumps(node.args)
args_json(args) == json_list([i \in DOMAIN args |-> json_str(args[i])])

\* for node in ir_patch.nodes: INSERT INTO nodes
RECURSIVE insert_nodes(_, _, _)
insert_nodes(rows, patch_id, nodes) ==
    IF nodes = <<>> THEN rows
    ELSE LET node == Head(nodes)
         IN  insert_nodes(rows \cup
                 {[id |-> next_rowid(rows), patch_id |-> patch_id,
                   node_id |-> node.id, canvas_id |-> node.canvas,
                   type |-> node.type, kind |-> node.kind,
                   domain |-> node.domain,
                   args_json |-> args_json(node.args)]},
                 patch_id, Tail(nodes))

\* for edge in ir_patch.edges: INSERT INTO edges
RECURSIVE insert_edges(_, _, _)
insert_edges(rows, patch_id, edges) ==
    IF edges = <<>> THEN rows
    ELSE LET edge == Head(edges)
         IN  insert_edges(rows \cup
                 {[id |-> next_rowid(rows), patch_id |-> patch_id,
                   edge_id |-> edge.id, kind |-> edge.kind,
                   domain |-> edge.domain,
                   from_node |-> edge.from_node,
                   from_port |-> edge.from_port,
                   to_node |-> edge.to_node, to_port |-> edge.to_port,
                   symbol |-> edge.symbol]},
                 patch_id, Tail(edges))

\* INSERT OR IGNORE INTO symbols, UNIQUE(resolved, kind, namespace)
insert_or_ignore_symbol(rows, symbol) ==
    IF \E r \in rows : /\ r.resolved = symbol.resolved
                       /\ r.kind = symbol.kind
                       /\ r.namespace = symbol.namespace
    THEN rows
    ELSE rows \cup {[id |-> next_rowid(rows), resolved |-> symbol.resolved,
                     kind |-> symbol.kind, namespace |-> symbol.namespace]}

\* SELECT id FROM symbols WHERE resolved = ? AND kind = ? AND namespace = ?
select_symbol_id(rows, symbol) ==
    (CHOOSE r \in rows : /\ r.resolved = symbol.resolved
                         /\ r.kind = symbol.kind
                         /\ r.namespace = symbol.namespace).id

\* for writer in symbol.writers (for reader in symbol.readers):
\* INSERT INTO symbol_endpoints
RECURSIVE insert_endpoints(_, _, _, _, _)
insert_endpoints(rows, sym_id, patch_id, endpoints, role) ==
    IF endpoints = <<>> THEN rows
    ELSE insert_endpoints(rows \cup
             {[id |-> next_rowid(rows), symbol_id |-> sym_id,
               patch_id |-> patch_id, node_id |-> Head(endpoints),
               role |-> role]},
             sym_id, patch_id, Tail(endpoints), role)

\* for symbol in ir_patch.symbols: the symbol row, then its endpoints
RECURSIVE insert_symbols(_, _, _)
insert_symbols(db, patch_id, symbols) ==
    IF symbols = <<>> THEN db
    ELSE LET symbol == Head(symbols)
             rows == insert_or_ignore_symbol(db.symbols, symbol)
             sym_id == select_symbol_id(rows, symbol)
             written == insert_endpoints(db.symbol_endpoints, sym_id,
                            patch_id, symbol.writers, R_writer)
         IN  insert_symbols(
                 [db EXCEPT !.symbols = rows,
                            !.symbol_endpoints =
                                insert_endpoints(written, sym_id,
                                    patch_id, symbol.readers, R_reader)],
                 patch_id, Tail(symbols))

\* for comment in ir_patch.text.comments: INSERT INTO comments_fts
RECURSIVE insert_comments(_, _, _)
insert_comments(rows, patch_path, comments) ==
    IF comments = <<>> THEN rows
    ELSE insert_comments(rows \cup
             {[id |-> next_rowid(rows), patch_path |-> patch_path,
               node_id |-> Head(comments).node,
               text |-> Head(comments).text]},
             patch_path, Tail(comments))

\* IRIndex.index_patch(ir_patch), called at the time now
index_patch(db, ir_patch, now) ==
    LET replaced == insert_or_replace_patch(db, ir_patch, now)
        patch_id == replaced.lastrowid
        deleted == [replaced.db EXCEPT
                      !.nodes = delete_patch_rows(@, patch_id),
                      !.edges = delete_patch_rows(@, patch_id),
                      !.symbol_endpoints = delete_patch_rows(@, patch_id),
                      !.comments_fts =
                          {r \in @ : r.patch_path # ir_patch.path}]
        filled == [deleted EXCEPT
                      !.nodes = insert_nodes(@, patch_id, ir_patch.nodes),
                      !.edges = insert_edges(@, patch_id, ir_patch.edges)]
        with_symbols == insert_symbols(filled, patch_id, ir_patch.symbols)
    IN  [with_symbols EXCEPT
            !.comments_fts = insert_comments(@, ir_patch.path,
                                             ir_patch.comments)]

\* IRIndex.remove_patch(patch_path)
remove_patch(db, patch_path) ==
    LET row == {r \in db.patches : r.path = patch_path}
    IN  IF row # {}
        THEN [delete_patch_row(db, (CHOOSE r \in row : TRUE).id) EXCEPT
                 !.comments_fts = {r \in @ : r.patch_path # patch_path}]
        ELSE db

\* The IR patches handed to index_patch: two versions of a.pd and of b.pd.
\* Version 1 is [osc~ 440] wired into [s x]; version 2 is [r x] beside a
\* comment.
IndexNode(id, type, domain, args) ==
    [id |-> id, canvas |-> P_c0, type |-> type, kind |-> K_object,
     domain |-> domain, args |-> args]

IndexVersion1(path) ==
    [path |-> path, sha256 |-> H_1, graph_hash |-> Sha8(H_1),
     ir_version |-> IR_VERSION,
     nodes |-> <<IndexNode(N_n1, T_osc, D_signal, <<A_440>>),
                 IndexNode(N_n2, T_s, D_control, <<A_x>>)>>,
     edges |-> <<[id |-> E_e1, kind |-> EK_wire, domain |-> D_signal,
                  from_node |-> N_n1, from_port |-> 0,
                  to_node |-> N_n2, to_port |-> 0, symbol |-> None]>>,
     symbols |-> <<[resolved |-> A_x, kind |-> SK_send_receive,
                    namespace |-> NS_global,
                    writers |-> <<N_n2>>, readers |-> <<>>]>>,
     comments |-> <<>>]

IndexVersion2(path) ==
    [path |-> path, sha256 |-> H_2, graph_hash |-> Sha8(H_2),
     ir_version |-> IR_VERSION,
     nodes |-> <<IndexNode(N_n1, T_r, D_control, <<A_x>>)>>,
     edges |-> <<>>,
     symbols |-> <<[resolved |-> A_x, kind |-> SK_send_receive,
                    namespace |-> NS_global,
                    writers |-> <<>>, readers |-> <<N_n1>>]>>,
     comments |-> <<[node |-> N_n2, text |-> A_hello]>>]

IndexedPaths == {P_a_pd, P_b_pd}

IndexedPatches ==
    {IndexVersion1(p) : p \in IndexedPaths}
        \cup {IndexVersion2(p) : p \in IndexedPaths}

\* IRIndex(db_path) on a new file: the schema with no row.  Whether the
\* connection enforces foreign keys is the default of the SQLite library
\* the interpreter is linked with: off, unless the library was compiled
\* with SQLITE_DEFAULT_FOREIGN_KEYS=1.
IdxInit ==
    /\ \E fk \in BOOLEAN :
           idxDb = [foreign_keys |-> fk, patches |-> {}, nodes |-> {},
                    edges |-> {}, symbols |-> {}, symbol_endpoints |-> {},
                    comments_fts |-> {}]
    /\ idxCalls = <<>>
    /\ IdsIdle
    /\ SymIdle
    /\ SccIdle
    /\ HashIdle
    /\ BuildIdle
    /\ IfaceIdle
    /\ IoIdle
    /\ EnrichIdle
    /\ ReuseIdle
    /\ ConcIdle
    /\ LoadIdle
    /\ ChainIdle
    /\ WalkIdle
    /\ GstIdle
    /\ CacheIdle

\* index.index_patch(ir_patch); datetime.now() is the number of the call
IndexPatch ==
    /\ Len(idxCalls) < MaxIndexCalls
    /\ \E ir_patch \in IndexedPatches :
           /\ idxDb' = index_patch(idxDb, ir_patch, Len(idxCalls))
           /\ idxCalls' = Append(idxCalls,
                  [op |-> "index_patch", path |-> ir_patch.path,
                   indexed |-> <<ir_patch>>])
    /\ UNCHANGED notIdx

\* index.remove_patch(patch_path)
RemovePatch ==
    /\ Len(idxCalls) < MaxIndexCalls
    /\ \E patch_path \in IndexedPaths :
           /\ idxDb' = remove_patch(idxDb, patch_path)
           /\ idxCalls' = Append(idxCalls,
                  [op |-> "remove_patch", path |-> patch_path,
                   indexed |-> <<>>])
    /\ UNCHANGED notIdx

IdxNext == IndexPatch \/ RemovePatch

SpecIdx == IdxInit /\ [][IdxNext]_vars

\* The calls made for one path, in order
CallsFor(path) == SelectSeq(idxCalls, LAMBDA c : c.path = path)

\* The IRPatch most recently indexed for a path that has one
LatestIndexed(path) ==
    CallsFor(path)[Len(CallsFor(path))].indexed[1]

\* A row without its rowid
Columns(r) == [f \in DOMAIN r \ {"id"} |-> r[f]]

\* The rows of one patch in a table
RowsOfPatch(rows, patch_id) == {r \in rows : r.patch_id = patch_id}

NodeRowsOf(ir_patch, patch_id) ==
    {Columns(r) : r \in insert_nodes({}, patch_id, ir_patch.nodes)}

EdgeRowsOf(ir_patch, patch_id) ==
    {Columns(r) : r \in insert_edges({}, patch_id, ir_patch.edges)}

EndpointCount(ir_patch) ==
    LET RECURSIVE count(_)
        count(symbols) ==
            IF symbols = <<>> THEN 0
            ELSE Len(Head(symbols).writers) + Len(Head(symbols).readers)
                 + count(Tail(symbols))
    IN  count(ir_patch.symbols)

\* The (resolved, kind, namespace) of a symbol or of a symbols row
SymbolKey(s) ==
    [resolved |-> s.resolved, kind |-> s.kind, namespace |-> s.namespace]

EndpointRowsOf(ir_patch, patch_id) ==
    UNION {{[symbol |-> SymbolKey(s), patch_id |-> patch_id,
             node_id |-> s.writers[i], role |-> R_writer] :
                i \in DOMAIN s.writers}
           \cup
           {[symbol |-> SymbolKey(s), patch_id |-> patch_id,
             node_id |-> s.readers[i], role |-> R_reader] :
                i \in DOMAIN s.readers} :
           s \in {ir_patch.symbols[k] : k \in DOMAIN ir_patch.symbols}}

\* A symbol_endpoints row with the symbol its symbol_id refers to
EndpointColumns(r) ==
    [symbol |-> SymbolKey(CHOOSE s \in idxDb.symbols : s.id = r.symbol_id),
     patch_id |-> r.patch_id, node_id |-> r.node_id, role |-> r.role]

\* The rows of one table are those of the latest IRPatch of every path in
\* the patches table, and no other row.  shown[r] is the content of row r,
\* expected[p] and count[p] the rows the latest IRPatch of the patches row
\* p gives and their number.
TableHoldsLatest(rows, shown, expected, count) ==
    /\ \A r \in rows : \E p \in idxDb.patches : p.id = r.patch_id
    /\ \A p \in idxDb.patches :
           /\ {shown[r] : r \in RowsOfPatch(rows, p.id)} = expected[p]
           /\ Cardinality(RowsOfPatch(rows, p.id)) = count[p]

\* C29: after any sequence of index_patch and remove_patch calls the rows of
\* nodes, edges and symbol_endpoints are exactly those of the most recently
\* indexed IRPatch of each path still in the patches table: a re-indexed
\* path keeps no row of its earlier version, a removed path keeps no row.
C29_TablesHoldLatestPatches ==
    /\ TableHoldsLatest(idxDb.nodes,
           [r \in idxDb.nodes |-> Columns(r)],
           [p \in idxDb.patches |-> NodeRowsOf(LatestIndexed(p.path), p.id)],
           [p \in idxDb.patches |-> Len(LatestIndexed(p.path).nodes)])
    /\ TableHoldsLatest(idxDb.edges,
           [r \in idxDb.edges |-> Columns(r)],
           [p \in idxDb.patches |-> EdgeRowsOf(LatestIndexed(p.path), p.id)],
           [p \in idxDb.patches |-> Len(LatestIndexed(p.path).edges)])
    /\ TableHoldsLatest(idxDb.symbol_endpoints,
           [r \in idxDb.symbol_endpoints |-> EndpointColumns(r)],
           [p \in idxDb.patches |->
               EndpointRowsOf(LatestIndexed(p.path), p.id)],
           [p \in idxDb.patches |-> EndpointCount(LatestIndexed(p.path))])

\* The patches table itself holds one row for each path whose last call
\* was index_patch
PatchesTableFollowsCalls ==
    {p.path : p \in idxDb.patches}
        = {path \in IndexedPaths :
              /\ CallsFor(path) # <<>>
              /\ CallsFor(path)[Len(CallsFor(path))].op = "index_patch"}

\* With foreign keys enforced the three tables do hold the latest patches
EnforcedKeysHoldLatest ==
    idxDb.foreign_keys => C29_TablesHoldLatestPatches

\* a.pd indexed twice with foreign keys off: the node rows of both versions
StaleRowsAfterReindex ==
    /\ ~idxDb.foreign_keys
    /\ Len(idxCalls) = 2
    /\ idxCalls[1].op = "index_patch" /\ idxCalls[2].op = "index_patch"
    /\ idxCalls[1].path = P_a_pd /\ idxCalls[2].path = P_a_pd
    /\ {p.id : p \in idxDb.patches} = {2}
    /\ {r.patch_id : r \in idxDb.nodes} = {1, 2}

\* a.pd indexed and removed with foreign keys off: its rows stay
OrphanRowsAfterRemove ==
    /\ ~idxDb.foreign_keys
    /\ Len(idxCalls) = 2
    /\ idxCalls[2].op = "remove_patch"
    /\ idxDb.patches = {}
    /\ idxDb.nodes # {}
    /\ idxDb.symbol_endpoints # {}

(***************************************************************************)
(* enrich.py: EnrichmentCache with a cache_dir, and the files it keeps.    *)
(***************************************************************************)
MaxCacheCalls == 3

S_null == <<"n", "u", "l", "l">>
P_a_x_pd == <<"a", "/", "x", ".", "p", "d">>
P_b_x_pd == <<"b", "/", "x", ".", "p", "d">>
P_a_y_pd == <<"a", "/", "y", ".", "p", "d">>
P_cache == <<"c", "a", "c", "h", "e">>
SUM_quoted == <<"a", " ", "\"", "b", "\"">>

\* os.path.basename
basename(path) ==
    LET slashes == {i \in 1..Len(path) : path[i] = "/"}
    IN  IF slashes = {} THEN path
        ELSE SubSeq(path,
                    (CHOOSE i \in slashes : \A j \in slashes : j <= i) + 1,
                    Len(path))

\* os.path.join of two parts
path_join(a, b) ==
    IF b /= <<>> /\ Head(b) = "/" THEN b
    ELSE IF a = <<>> \/ a[Len(a)] = "/" THEN a \o b
    ELSE a \o <<"/">> \o b

\* EnrichmentCache._get_enrichment_path
enrichment_path(cache_dir, patch_path) ==
    IF cache_dir /= None
    THEN path_join(cache_dir,
                   splitext_base(basename(patch_path)) \o S_enrichment_json)
    ELSE splitext_base(patch_path) \o S_enrichment_json

\* json.dumps of an Optional[str]
json_optional_str(v) == IF v = None THEN S_null ELSE json_str(v)

\* What json.loads undoes of json_escape
RECURSIVE json_unescape(_)
json_unescape(s) ==
    IF s = <<>> THEN <<>>
    ELSE IF Head(s) = "\\" /\ Len(s) >= 2
    THEN <<s[2]>> \o json_unescape(Tail(Tail(s)))
    ELSE <<Head(s)>> \o json_unescape(Tail(s))

\* json.loads of the text of an Optional[str]
json_loads_optional_str(text) ==
    IF text = S_null THEN None
    ELSE json_unescape(SubSeq(text, 2, Len(text) - 1))

\* EnrichmentData.to_json: the text of each field of the JSON object
to_json(enrichment) ==
    [f \in DOMAIN enrichment |-> json_optional_str(enrichment[f])]

\* EnrichmentData.from_json
from_json(text) ==
    [f \in DOMAIN text |-> json_loads_optional_str(text[f])]

\* EnrichmentCache.get: None stands for the missing file
cache_dir_get(cache_dir, files, patch_path) ==
    LET enrich_path == enrichment_path(cache_dir, patch_path)
    IN  IF enrich_path \notin DOMAIN files THEN None
        ELSE from_json(files[enrich_path])

\* EnrichmentCache.save: makedirs makes the directory, open(.., 'w') makes
\* or overwrites the file
cache_dir_save(cache_dir, files, patch_path, enrichment) ==
    DictPut(files, enrichment_path(cache_dir, patch_path),
            to_json(enrichment))

\* EnrichmentCache.invalidate
cache_dir_invalidate(cache_dir, files, patch_path) ==
    LET enrich_path == enrichment_path(cache_dir, patch_path)
    IN  IF enrich_path \in DOMAIN files
        THEN [f \in DOMAIN files \ {enrich_path} |-> files[f]]
        ELSE files

CachePaths == {P_a_x_pd, P_b_x_pd, P_a_y_pd}

CacheDirs == {None, P_cache}

CachedEnrichments ==
    {[based_on_ir_sha |-> h, summary |-> t] :
        h \in {None, H_1}, t \in {SUM_1, SUM_quoted}}

NothingGot == [path |-> None, result |-> None]

\* EnrichmentCache(cache_dir) over a directory tree without enrichment files
CacheInit ==
    /\ cacheDir \in CacheDirs
    /\ cacheFiles = EmptyDict
    /\ cacheCalls = <<>>
    /\ cacheGot = NothingGot
    /\ IdsIdle
    /\ SymIdle
    /\ SccIdle
    /\ HashIdle
    /\ BuildIdle
    /\ IfaceIdle
    /\ IoIdle
    /\ EnrichIdle
    /\ ReuseIdle
    /\ ConcIdle
    /\ LoadIdle
    /\ ChainIdle
    /\ WalkIdle
    /\ GstIdle
    /\ IdxIdle

\* cache.save(patch_path, enrichment)
CacheSave ==
    /\ Len(cacheCalls) < MaxCacheCalls
    /\ \E patch_path \in CachePaths, enrichment \in CachedEnrichments :
           /\ cacheFiles' = cache_dir_save(cacheDir, cacheFiles, patch_path,
                                           enrichment)
           /\ cacheCalls' = Append(cacheCalls,
                  [op |-> "save", path |-> patch_path,
                   saved |-> <<enrichment>>])
    /\ UNCHANGED <<cacheDir, cacheGot, notCache>>

\* cache.invalidate(patch_path)
CacheInvalidate ==
    /\ Len(cacheCalls) < MaxCacheCalls
    /\ \E patch_path \in CachePaths :
           /\ cacheFiles' = cache_dir_invalidate(cacheDir, cacheFiles,
                                                 patch_path)
           /\ cacheCalls' = Append(cacheCalls,
                  [op |-> "invalidate", path |-> patch_path,
                   saved |-> <<>>])
    /\ UNCHANGED <<cacheDir, cacheGot, notCache>>

\* cache.get(patch_path)
CacheGet ==
    /\ \E patch_path \in CachePaths :
           cacheGot' = [path |-> patch_path,
                        result |-> cache_dir_get(cacheDir, cacheFiles,
                                                 patch_path)]
    /\ UNCHANGED <<cacheDir, cacheFiles, cacheCalls, notCache>>

CacheNext == CacheSave \/ CacheInvalidate \/ CacheGet

SpecCache == CacheInit /\ [][CacheNext]_vars

\* The save and invalidate calls made for one path, in order
CacheCallsFor(path) == SelectSeq(cacheCalls, LAMBDA c : c.path = path)

\* What a map keyed by patch path holds for a path after the calls made
MapValue(path) ==
    LET calls == CacheCallsFor(path)
    IN  IF calls = <<>> THEN None
        ELSE IF calls[Len(calls)].op = "save"
        THEN calls[Len(calls)].saved[1]
        ELSE None

\* C30: EnrichmentCache is a map keyed by patch path: get(p) returns the
\* enrichment most recently saved for p, or None if none was saved since the
\* last invalidate(p), also with a cache_dir and patch paths that share a
\* file name.
C30_CacheIsMapByPatchPath ==
    \A path \in CachePaths :
        cache_dir_get(cacheDir, cacheFiles, path) = MapValue(path)

\* Without a cache_dir the cache is that map
MapWithoutCacheDir ==
    cacheDir = None => C30_CacheIsMapByPatchPath

\* With a cache_dir, a/x.pd was saved and get(b/x.pd) returned its data
OtherPatchReturned ==
    /\ cacheDir = P_cache
    /\ Len(cacheCalls) = 1
    /\ cacheCalls[1].op = "save" /\ cacheCalls[1].path = P_a_x_pd
    /\ cacheGot.path = P_b_x_pd
    /\ cacheGot.result = cacheCalls[1].saved[1]

====
